---- MODULE Spec2Model ----
(***************************************************************************)
(* Model of src/extract_and_decompile_public_rpc.js: the endpoint pool     *)
(* (nextRpc), the file cache, the retrying fetch client (fetchParsedTx),   *)
(* the normalizer/classifier (decompileToTS) and the batch loop (run).     *)
(*                                                                         *)
(* Time is in milliseconds.  JavaScript runs one callback at a time, so    *)
(* every action is the code executed between two suspension points.        *)
(***************************************************************************)
EXTENDS Integers, Sequences, FiniteSets, TLC

(***************************************************************************)
(* State.                                                                  *)
(***************************************************************************)
VARIABLES
    RPC_LIST,     \* the configured endpoints, in order
    allSigs,      \* the identifiers read from the signature file
    START_FROM_SIG, \* the resume identifier, or Undef
    MAX_RETRIES,  \* the attempts fetchParsedTx makes for one identifier
    now,          \* Date.now()
    rpcIndex,     \* rotation index of the pool
    rpcStats,     \* per endpoint: requests, success, failures
    rpcLastUsed,  \* per endpoint: time of last use, or NeverUsed
    cache,        \* per identifier: the cache file (a document or Corrupt), or NoEntry
    task,         \* per position: the state of one processSig / fetchParsedTx
    runPc,        \* where run() is
    sigs,         \* the list run() processes
    i,            \* run()'s window offset
    launched,     \* how many tasks of the current window have been started
    runAt,        \* wake-up time of run()'s inter-window wait
    rpcCalls,     \* history: endpoints in the order nextRpc assigned them
    uses,         \* history: (endpoint, time) of every nextRpc return
    requests,     \* history: every network request issued
    faults,       \* history: attempts that ended without a result
    normIn,       \* the response handed to decompileToTS
    normOut,      \* what the latest call of decompileToTS on it returned
    normPc,       \* "ready" before the first call on it has returned, then
                  \* "done" or "threw"
    normCalls,    \* how many calls of decompileToTS on normIn have ended
    normOther,    \* what decompileToTS returned for another response
    normFrame     \* the call of decompileToTS in progress: its argument, its
                  \* position in the instruction loop and its three accumulators

poolVars == << rpcIndex, rpcStats, rpcLastUsed, rpcCalls, uses >>
configVars == << RPC_LIST, allSigs, START_FROM_SIG, MAX_RETRIES >>
runVars == << runPc, sigs, i, launched, runAt >>
normVars == << normIn, normOut, normPc, normCalls, normOther, normFrame >>
vars == << RPC_LIST, allSigs, START_FROM_SIG, MAX_RETRIES, now, rpcIndex, rpcStats, rpcLastUsed,
           cache, task, runPc, sigs, i, launched, runAt, rpcCalls, uses, requests,
           faults, normIn, normOut, normPc, normCalls, normOther, normFrame >>

(***************************************************************************)
(* JavaScript values.  Every value carries its type, so that truthiness,   *)
(* typeof tests and toBase58/toString behave as in the source.             *)
(***************************************************************************)
Undef == [t |-> "undefined"]
Str(s) == [t |-> "string", v |-> s]
Num(n) == [t |-> "number", n |-> n]
PublicKey(s) == [t |-> "PublicKey", b58 |-> s]

Truthy(x) ==
    CASE x.t = "undefined" -> FALSE
      [] x.t = "string" -> x.v # ""
      [] x.t = "number" -> x.n # 0
      [] OTHER -> TRUE

\* typeof x.toBase58 === 'function'
HasToBase58(x) == x.t = "PublicKey"

\* x.toBase58()
ToBase58(x) == x.b58

\* x.toString()
ToStringOf(x) ==
    CASE x.t = "string" -> x.v
      [] x.t = "PublicKey" -> x.b58
      [] OTHER -> "[object Object]"

(***************************************************************************)
(* Program constants of the normalizer.                                    *)
(***************************************************************************)
SYSTEM_PROGRAM_ID == "11111111111111111111111111111111"
TOKEN_PROGRAM_ID == "TokenkegQfeZyiNwAJbNbGKPFXCWuBvf9Ss623VQ5DA"
COMPUTE_BUDGET_PROGRAM_ID == "ComputeBudget111111111111111111111111111111"
MEMO_PROGRAM_IDS ==
    {"MemoSq4gqABAXKb96qnH8TysNcWxMyWCqXgDLGmfcHr",
     "Memo1UhkJBfCR961GD3xbN1T1YQC7kFpFHJBF7bxTpN"}
DEFAULT_COMPUTE_UNITS == 200000

\* The fields of a decoded instruction's info that decompileToTS reads as
\* accounts, in the order of its accountFields table, with the roles it gives.
AccountFields ==
    << [field |-> "source",            isSigner |-> TRUE,  isWritable |-> TRUE],
       [field |-> "destination",       isSigner |-> FALSE, isWritable |-> TRUE],
       [field |-> "owner",             isSigner |-> TRUE,  isWritable |-> FALSE],
       [field |-> "authority",         isSigner |-> TRUE,  isWritable |-> FALSE],
       [field |-> "mint",              isSigner |-> FALSE, isWritable |-> TRUE],
       [field |-> "account",           isSigner |-> FALSE, isWritable |-> TRUE],
       [field |-> "tokenAccount",      isSigner |-> FALSE, isWritable |-> TRUE],
       [field |-> "multisigAuthority", isSigner |-> FALSE, isWritable |-> FALSE],
       [field |-> "newAccount",        isSigner |-> FALSE, isWritable |-> TRUE],
       [field |-> "fromPubkey",        isSigner |-> TRUE,  isWritable |-> TRUE],
       [field |-> "toPubkey",          isSigner |-> FALSE, isWritable |-> TRUE] >>

InfoFields ==
    {AccountFields[k].field : k \in DOMAIN AccountFields}
        \cup {"units", "lamports", "amount"}

\* An info object in which only the given fields are set.
InfoOf(set) == [f \in InfoFields |-> IF f \in DOMAIN set THEN set[f] ELSE Undef]

\* instr.parsed: absent, or an object with a type and an optional info.
NoParsed == [t |-> "undefined"]
Parsed(type, info) == [t |-> "object", type |-> type, info |-> info]
NoInfo == [t |-> "undefined"]
Info(set) == [t |-> "object", f |-> InfoOf(set)]

\* instr.accounts: absent, or an array of indices into accountKeys.
NoAccounts == [t |-> "undefined"]
Accounts(seq) == [t |-> "array", a |-> seq]

\* message.header: absent, or the three counts.
NoHeader == [t |-> "undefined"]
Header(nrs, ros, rou) ==
    [t |-> "object", numRequiredSignatures |-> nrs,
     numReadonlySignedAccounts |-> ros, numReadonlyUnsignedAccounts |-> rou]

\* JavaScript arrays are indexed from 0; arr[i] is undefined out of range.
At(arr, ix) == IF ix >= 0 /\ ix < Len(arr) THEN arr[ix + 1] ELSE Undef

\* Set.add on the insertion-ordered Set uniqueAccounts.
SetAdd(seq, x) == IF \E k \in DOMAIN seq : seq[k] = x THEN seq ELSE Append(seq, x)

Range(seq) == {seq[k] : k \in DOMAIN seq}

(***************************************************************************)
(* The normalizer and classifier: decompileToTS.                           *)
(***************************************************************************)
\* A JavaScript object as the normalizer sees a response, a transaction or
\* a message: any of the five properties it reads may be absent.
Obj(transaction, message, instructions, accountKeys, header) ==
    [t |-> "object", transaction |-> transaction, message |-> message,
     instructions |-> instructions, accountKeys |-> accountKeys, header |-> header]
EmptyObject == Obj(Undef, Undef, Undef, Undef, Undef)
Arr(seq) == [t |-> "array", a |-> seq]

\* An input instruction, without data and with data (a string, or a Buffer
\* given by its base64 text).
Instr(programId, program, programIdIndex, parsed, accounts) ==
    [programId |-> programId, program |-> program, programIdIndex |-> programIdIndex,
     parsed |-> parsed, accounts |-> accounts, data |-> Undef]
Buffer(base64) == [t |-> "Buffer", base64 |-> base64]
WithData(instr, data) == [instr EXCEPT !.data = data]

\* const message = parsed?.transaction?.message || parsed?.message || parsed
MessageOf(parsed) ==
    IF Truthy(parsed.transaction) /\ Truthy(parsed.transaction.message)
    THEN parsed.transaction.message
    ELSE IF Truthy(parsed.message) THEN parsed.message ELSE parsed

\* const instructions = message?.instructions || parsed?.transaction?.instructions || []
InstructionsOf(parsed) ==
    LET message == MessageOf(parsed) IN
    IF Truthy(message.instructions) THEN message.instructions.a
    ELSE IF Truthy(parsed.transaction) /\ Truthy(parsed.transaction.instructions)
         THEN parsed.transaction.instructions.a
         ELSE << >>

\* const accountKeys = message?.accountKeys || []
AccountKeysOf(parsed) ==
    LET message == MessageOf(parsed) IN
    IF Truthy(message.accountKeys) THEN message.accountKeys.a ELSE << >>

\* const header = message?.header || {}
HeaderOf(parsed) == MessageOf(parsed).header

\* (typeof pk.toBase58 === 'function') ? pk.toBase58() : pk.toString()
KeyString(pk) == IF HasToBase58(pk) THEN ToBase58(pk) ELSE ToStringOf(pk)

\* The program id of one input instruction, or "no id" when the instruction
\* is skipped: the if / else-if chain at the head of the loop body.
Skip == [ok |-> FALSE]
Resolved(id) == [ok |-> TRUE, id |-> id]
ResolveProgramId(instr, accountKeys) ==
    IF Truthy(instr.programId) /\ HasToBase58(instr.programId)
    THEN Resolved(ToBase58(instr.programId))
    ELSE IF Truthy(instr.programId)
    THEN Resolved(ToStringOf(instr.programId))
    ELSE IF instr.program = Str("system")
    THEN Resolved(SYSTEM_PROGRAM_ID)
    ELSE IF instr.programIdIndex # Undef
            /\ Truthy(At(accountKeys, instr.programIdIndex.n))
    THEN Resolved(KeyString(At(accountKeys, instr.programIdIndex.n)))
    ELSE IF Truthy(instr.program)
    THEN Resolved(instr.program.v)
    ELSE Skip

\* header.numRequiredSignatures || 0
NumSigners(header) ==
    IF header.t = "object" THEN header.numRequiredSignatures ELSE 0

\* accountKeys.length - (header.numReadonlySignedAccounts || 0)
\*                    - (header.numReadonlyUnsignedAccounts || 0)
NumWritable(header, accountKeys) ==
    IF header.t = "object"
    THEN Len(accountKeys) - header.numReadonlySignedAccounts
                          - header.numReadonlyUnsignedAccounts
    ELSE Len(accountKeys)

\* A variant of IsSignerIndex that is off by one at the boundary.
IsSignerIndexInclusive(accIdx, header) == accIdx <= NumSigners(header)

\* isSigner: accIdx < numSigners
IsSignerIndex(accIdx, header) == accIdx < NumSigners(header)

\* isWritable: accIdx < numWritable
IsWritableIndex(accIdx, header, accountKeys) == accIdx < NumWritable(header, accountKeys)

\* The key pushed for one account index of a raw instruction.
RawKey(accIdx, header, accountKeys) ==
    [pubkey |-> KeyString(At(accountKeys, accIdx)),
     isSigner |-> IsSignerIndex(accIdx, header),
     isWritable |-> IsWritableIndex(accIdx, header, accountKeys)]

\* for (const accIdx of instr.accounts) if (accountKeys[accIdx]) keys.push(...)
RawKeys(accs, header, accountKeys) ==
    LET keys[k \in 0..Len(accs)] ==
            IF k = 0 THEN << >>
            ELSE IF Truthy(At(accountKeys, accs[k]))
                 THEN Append(keys[k - 1], RawKey(accs[k], header, accountKeys))
                 ELSE keys[k - 1]
    IN keys[Len(accs)]

\* for (const {field, isSigner, isWritable} of accountFields)
\*   if (info[field] && typeof info[field] === 'string') keys.push(...)
ParsedKeys(info, k) ==
    LET keys[j \in (k - 1)..Len(AccountFields)] ==
            IF j = k - 1 THEN << >>
            ELSE LET af == AccountFields[j]
                     val == info.f[af.field]
                 IN IF Truthy(val) /\ val.t = "string"
                    THEN Append(keys[j - 1],
                                [pubkey |-> val.v, isSigner |-> af.isSigner,
                                 isWritable |-> af.isWritable])
                    ELSE keys[j - 1]
    IN keys[Len(AccountFields)]

\* The keys of one kept instruction.
KeysOf(instr, header, accountKeys) ==
    IF instr.accounts.t = "array"
    THEN RawKeys(instr.accounts.a, header, accountKeys)
    ELSE IF instr.parsed.t = "object" /\ instr.parsed.info.t = "object"
         THEN ParsedKeys(instr.parsed.info, 1)
         ELSE << >>

AddAll(seq, keys) ==
    LET added[k \in 0..Len(keys)] ==
            IF k = 0 THEN seq ELSE SetAdd(added[k - 1], keys[k].pubkey)
    IN added[Len(keys)]

\* A variant of ComputeUnits that ignores the units of the instruction.
ComputeUnitsDefaultOnly(instr) == DEFAULT_COMPUTE_UNITS

\* instr.parsed.info?.units || 200000
ComputeUnits(instr) ==
    IF instr.parsed.info.t = "object" /\ Truthy(instr.parsed.info.f["units"])
    THEN instr.parsed.info.f["units"].n
    ELSE DEFAULT_COMPUTE_UNITS

NoBudget == -1

\* info.mint.slice: strings have the method, numbers, PublicKey objects and
\* the other values of the model have not.
HasSlice(x) == x.t = "string"

\* `info.mint.slice(0, 8)` is a TypeError when info.mint is truthy and has no
\* slice method.
DescriptionThrows(instr) ==
    /\ instr.parsed.t = "object"
    /\ instr.parsed.info.t = "object"
    /\ Truthy(instr.parsed.info.f["mint"])
    /\ ~HasSlice(instr.parsed.info.f["mint"])

\* s.slice(0, 8): the first eight characters of the string, the whole
\* string when it is shorter.
Slice8(str) == IF Len(str) > 8 THEN SubSeq(str, 1, 8) ELSE str

\* `${x}` in a template literal.
TemplateString(x) ==
    CASE x.t = "number" -> ToString(x.n)
      [] OTHER -> ToStringOf(x)

\* let description; if (instr.parsed) { ... } else if ... else ...
Description(instr, programId) ==
    IF Truthy(instr.parsed)
    THEN LET type == IF Truthy(instr.parsed.type) THEN instr.parsed.type.v
                     ELSE "parsed instruction"
             info == instr.parsed.info
             part(field, before, after) ==
                 IF Truthy(info.f[field])
                 THEN before \o TemplateString(info.f[field]) \o after
                 ELSE ""
         IN IF Truthy(info)
            THEN type \o part("lamports", " (", " lamports)")
                      \o part("amount", " (amount: ", ")")
                      \o (IF Truthy(info.f["mint"])
                          THEN " (mint: " \o Slice8(info.f["mint"].v) \o "...)"
                          ELSE "")
            ELSE type
    ELSE IF programId \in MEMO_PROGRAM_IDS THEN "Memo"
    ELSE IF programId = SYSTEM_PROGRAM_ID THEN "System instruction"
    ELSE IF programId = TOKEN_PROGRAM_ID THEN "SPL Token instruction"
    ELSE "Program " \o Slice8(programId) \o "... instruction"

\* let data = ''; if (instr.data) { string: itself; Buffer: its base64 text }
Data(instr) ==
    IF Truthy(instr.data)
    THEN IF instr.data.t = "string" THEN instr.data.v
         ELSE IF instr.data.t = "Buffer" THEN instr.data.base64
         ELSE ""
    ELSE ""

\* One iteration of the instruction loop on the accumulated
\* uniqueAccounts, detailedInstructions and computeBudget; `threw` says that
\* an iteration threw, which ends the loop and the call.
LoopBody(acc, instr, header, accountKeys) ==
    LET r == ResolveProgramId(instr, accountKeys) IN
    IF acc.threw \/ ~r.ok THEN acc
    ELSE LET ua == SetAdd(acc.uniqueAccounts, r.id) IN
         IF r.id = COMPUTE_BUDGET_PROGRAM_ID
         THEN [acc EXCEPT !.uniqueAccounts = ua,
                          !.computeBudget =
                              IF instr.parsed.t = "object"
                                 /\ instr.parsed.type = Str("setComputeUnitLimit")
                              THEN ComputeUnits(instr) ELSE @]
         ELSE IF DescriptionThrows(instr)
         THEN [acc EXCEPT !.uniqueAccounts = ua, !.threw = TRUE]
         ELSE LET keys == KeysOf(instr, header, accountKeys) IN
              [acc EXCEPT !.uniqueAccounts = AddAll(ua, keys),
                          !.detailedInstructions =
                              Append(@, [programId |-> r.id,
                                         description |-> Description(instr, r.id),
                                         keys |-> keys,
                                         data |-> Data(instr)])]

Loop(acc, instrs, header, accountKeys) ==
    LET after[k \in 0..Len(instrs)] ==
            IF k = 0 THEN acc
            ELSE LoopBody(after[k - 1], instrs[k], header, accountKeys)
    IN after[Len(instrs)]

\* A variant of Classify that knows only the current memo program id.
ClassifyOneMemoId(detailedInstructions) ==
    IF Len(detailedInstructions) = 1
    THEN LET pid == detailedInstructions[1].programId IN
         IF pid = SYSTEM_PROGRAM_ID THEN "system"
         ELSE IF pid = TOKEN_PROGRAM_ID THEN "spl-token"
         ELSE IF pid = "MemoSq4gqABAXKb96qnH8TysNcWxMyWCqXgDLGmfcHr" THEN "memo"
         ELSE "program"
    ELSE IF Len(detailedInstructions) > 1
         THEN "multi-" \o ToString(Len(detailedInstructions))
         ELSE "complex"

\* A variant of Classify that numbers the instructions from zero.
ClassifyCountingFromZero(detailedInstructions) ==
    IF Len(detailedInstructions) = 1
    THEN LET pid == detailedInstructions[1].programId IN
         IF pid = SYSTEM_PROGRAM_ID THEN "system"
         ELSE IF pid = TOKEN_PROGRAM_ID THEN "spl-token"
         ELSE IF pid \in MEMO_PROGRAM_IDS THEN "memo"
         ELSE "program"
    ELSE IF Len(detailedInstructions) > 1
         THEN "multi-" \o ToString(Len(detailedInstructions) - 1)
         ELSE "complex"

\* let kind = 'complex'; if (length === 1) ... else if (length > 1) ...
Classify(detailedInstructions) ==
    IF Len(detailedInstructions) = 1
    THEN LET pid == detailedInstructions[1].programId IN
         IF pid = SYSTEM_PROGRAM_ID THEN "system"
         ELSE IF pid = TOKEN_PROGRAM_ID THEN "spl-token"
         ELSE IF pid \in MEMO_PROGRAM_IDS THEN "memo"
         ELSE "program"
    ELSE IF Len(detailedInstructions) > 1
         THEN "multi-" \o ToString(Len(detailedInstructions))
         ELSE "complex"

\* renderCompleteTransactionTS({ sig, instructions, accounts, computeBudget }):
\* the text of the file, given by what the template literal substitutes, in
\* the order of the text.  A key of an instruction is rendered as a fresh
\* keypair (by its index among the keypairs of the instruction), as the
\* agent's key, or as its own public key.
TOKEN_2022_PROGRAM_ID == "TokenzQdBNbLqP5VEhdkAS6EPFLC1PHnBqCXEpPxuEb"
InstructionCode(instr, accounts0) ==
    LET IsKeypair(kidx) ==
            /\ instr.keys[kidx].isWritable
            /\ instr.keys[kidx].isSigner
            /\ Str(instr.keys[kidx].pubkey) # accounts0
        keypairIdx(kidx) == Cardinality({j \in 1..(kidx - 1) : IsKeypair(j)})
        pubkeyExpr(kidx) ==
            IF IsKeypair(kidx) THEN << "newAccount", keypairIdx(kidx) >>
            ELSE IF Str(instr.keys[kidx].pubkey) = accounts0 THEN << "agentPubkey" >>
            ELSE << "new PublicKey", instr.keys[kidx].pubkey >>
    IN [description |-> instr.description,
        keypairAccounts |-> Cardinality({j \in DOMAIN instr.keys : IsKeypair(j)}),
        programId |-> instr.programId,
        keys |-> [kidx \in DOMAIN instr.keys |->
                     [pubkey |-> pubkeyExpr(kidx),
                      isSigner |-> instr.keys[kidx].isSigner,
                      isWritable |-> instr.keys[kidx].isWritable]],
        data |-> instr.data]
renderCompleteTransactionTS(sig, instructions, accounts, computeBudget) ==
    LET accounts0 == IF Len(accounts) > 0 THEN Str(accounts[1]) ELSE Undef
        programs[k \in 0..Len(instructions)] ==
            IF k = 0 THEN << >>
            ELSE SetAdd(programs[k - 1], Slice8(instructions[k].programId))
    IN [sig |-> sig,
        instructionCount |-> Len(instructions),
        programs |-> programs[Len(instructions)],
        needsSPLToken |->
            \E k \in DOMAIN instructions : instructions[k].programId = TOKEN_PROGRAM_ID,
        needsToken2022 |->
            \E k \in DOMAIN instructions : instructions[k].programId = TOKEN_2022_PROGRAM_ID,
        demonstrates |-> [k \in DOMAIN instructions |-> instructions[k].description],
        agentPubkey |-> IF Truthy(accounts0) THEN accounts0.v
                        ELSE "REPLACE_WITH_YOUR_PUBKEY",
        computeUnitLimit |-> IF computeBudget # NoBudget /\ computeBudget # 0
                             THEN computeBudget ELSE NoBudget,
        code |-> [k \in DOMAIN instructions |->
                     InstructionCode(instructions[k], accounts0)],
        accountCount |-> Len(accounts),
        firstAccounts |-> SubSeq(accounts, 1, IF Len(accounts) > 10 THEN 10
                                              ELSE Len(accounts)),
        moreAccounts |-> IF Len(accounts) > 10 THEN Len(accounts) - 10 ELSE 0]

Null == [t |-> "null"]

\* A call that ended in an exception instead of a return value.
TypeError == "TypeError"
Threw(e) == [t |-> "threw", e |-> e]

\* A variant of NewAccumulators in which the accumulators are declared
\* outside the function: a call goes on with what the call before it left
\* in them.
AccumulatorsKeptAcrossCalls == [normFrame.acc EXCEPT !.threw = FALSE]

\* const uniqueAccounts = new Set(); const detailedInstructions = [];
\* let computeBudget = null;   -- created anew by every call
NewAccumulators ==
    [uniqueAccounts |-> << >>, detailedInstructions |-> << >>,
     computeBudget |-> NoBudget, threw |-> FALSE]

\* No call of decompileToTS is in progress and none has been.
NoFrame ==
    [on |-> "none", sig |-> "", other |-> Null, k |-> 0,
     acc |-> [uniqueAccounts |-> << >>, detailedInstructions |-> << >>,
              computeBudget |-> NoBudget, threw |-> FALSE]]

\* What decompileToTS returns after the loop: { kind, ts }, here together
\* with the three values the text is rendered from.
ReturnValue(sig, acc) ==
    [t |-> "object",
     kind |-> Classify(acc.detailedInstructions),
     ts |-> renderCompleteTransactionTS(sig, acc.detailedInstructions,
                                        acc.uniqueAccounts, acc.computeBudget),
     instructions |-> acc.detailedInstructions,
     accounts |-> acc.uniqueAccounts,
     computeBudget |-> acc.computeBudget]

\* decompileToTS(sig, parsed): null, an exception of the instruction loop, or
\* the object built after the loop.
decompileToTS(sig, parsed) ==
    LET instructions == InstructionsOf(parsed) IN
    IF Len(instructions) = 0 THEN Null
    ELSE LET acc == Loop(NewAccumulators,
                         instructions, HeaderOf(parsed), AccountKeysOf(parsed))
         IN IF acc.threw THEN Threw(TypeError) ELSE ReturnValue(sig, acc)

(***************************************************************************)
(* Configuration.  CONCURRENCY and MAX_RETRIES are read from the           *)
(* environment (defaults 5 and 5); the model runs with smaller settings:   *)
(* a window of three, and one or two attempts (the variable MAX_RETRIES).  *)
(***************************************************************************)
CONCURRENCY == 3
BASE_BACKOFF_MS == 1000
REQUEST_TIMEOUT_MS == 30000
BATCH_DELAY_MS == 0
PER_RPC_DELAY_MS == 300
EMPTY_JITTER_MS == 100
ERROR_JITTER_MS == 150

\* Bounds of the model: the time a provider takes to answer, the number of
\* attempts that may end without a result (in a run on one identifier, and
\* in a run on several or in a series of direct calls), the number of
\* direct calls of fetchParsedTx.
Latency == 50
MaxFaults == 2
MaxWindowFaults == 1
MaxCalls == 2

\* How many times the normalizer is called on one response.
MaxNormCalls == 2

(***************************************************************************)
(* Inputs of the normalizer: responses built from a pool of instructions,  *)
(* account-key lists and headers, in the shapes the providers and the      *)
(* cache return them.                                                      *)
(***************************************************************************)
MaxInstrs == 2

MEMO_V1 == "Memo1UhkJBfCR961GD3xbN1T1YQC7kFpFHJBF7bxTpN"
MEMO_V2 == "MemoSq4gqABAXKb96qnH8TysNcWxMyWCqXgDLGmfcHr"

\* Five accounts as PublicKey objects (a fresh raw response).
Keys5 ==
    << PublicKey("Payer"), PublicKey("Signer2"), PublicKey("AcctA"),
       PublicKey("AcctB"), PublicKey(SYSTEM_PROGRAM_ID) >>
\* Six accounts as strings (a response read back from the cache).
Keys6 ==
    << Str("Payer"), Str("AcctA"), Str(TOKEN_PROGRAM_ID), Str(MEMO_V1),
       Str(COMPUTE_BUDGET_PROGRAM_ID), Str("Prog1") >>

KeysAndHeaders ==
    { [keys |-> Arr(Keys5), header |-> Header(2, 1, 1)],
      [keys |-> Arr(Keys5), header |-> NoHeader],
      [keys |-> Arr(Keys6), header |-> Header(1, 0, 3)],
      [keys |-> Arr(Keys6), header |-> Header(3, 2, 2)],
      [keys |-> Undef,      header |-> NoHeader] }

TransferInfo ==
    Info([source |-> Str("Payer"), destination |-> Str("AcctA"),
          lamports |-> Num(5000)])
TokenInfo ==
    Info([source |-> Str("AcctA"), destination |-> Str("AcctB"),
          authority |-> Str("Payer"), mint |-> Str("Mint1"),
          amount |-> Str("1000")])
\* An info whose mint is not a string.
NumericMintInfo == Info([account |-> Str("AcctA"), mint |-> Num(7)])
SystemInfo == Info([fromPubkey |-> Str("Payer"), toPubkey |-> Str("AcctB")])

InstrPool ==
    { \* pre-parsed, program id as a PublicKey object
      Instr(PublicKey(SYSTEM_PROGRAM_ID), Str("system"), Undef,
            Parsed(Str("transfer"), TransferInfo), NoAccounts),
      Instr(PublicKey(MEMO_V2), Str("spl-memo"), Undef,
            Parsed(Str("memo"), NoInfo), NoAccounts),
      Instr(PublicKey(COMPUTE_BUDGET_PROGRAM_ID), Undef, Undef,
            Parsed(Str("setComputeUnitLimit"), Info([units |-> Num(1400000)])),
            NoAccounts),
      Instr(PublicKey(COMPUTE_BUDGET_PROGRAM_ID), Undef, Undef,
            Parsed(Str("setComputeUnitLimit"), NoInfo), NoAccounts),
      Instr(PublicKey(COMPUTE_BUDGET_PROGRAM_ID), Undef, Undef,
            NoParsed, Accounts(<< >>)),
      \* pre-parsed, program id as a string
      Instr(Str(TOKEN_PROGRAM_ID), Str("spl-token"), Undef,
            Parsed(Str("transfer"), TokenInfo), NoAccounts),
      Instr(Str(TOKEN_PROGRAM_ID), Str("spl-token"), Undef,
            Parsed(Str("mintTo"), NumericMintInfo), NoAccounts),
      Instr(Str("Prog1"), Str("system"), Undef, NoParsed, NoAccounts),
      \* only the provider's program tag
      Instr(Undef, Str("system"), Undef,
            Parsed(Str("transfer"), SystemInfo), NoAccounts),
      Instr(Undef, Str("spl-token"), Num(3), NoParsed, NoAccounts),
      Instr(Undef, Str("stake"), Undef, NoParsed, NoAccounts),
      \* raw, program id by index into the account keys
      \* (the first with its data as the base58 string of the provider, the
      \* third with its data in a Buffer)
      WithData(Instr(Undef, Undef, Num(4), NoParsed, Accounts(<< 0, 1, 2, 3, 4 >>)),
               Str("3Bxs4h24hBtQy9rw")),
      Instr(Undef, Undef, Num(2), NoParsed, Accounts(<< 1, 7 >>)),
      WithData(Instr(Undef, Undef, Num(3), NoParsed, Accounts(<< 0 >>)),
               Buffer("AgAAAOgDAAAAAAAA")),
      \* unresolvable
      Instr(Undef, Undef, Undef, NoParsed, Accounts(<< 0 >>)),
      Instr(Undef, Undef, Num(9), NoParsed, NoAccounts) }

\* Longer transactions: a compute-budget instruction or an unresolvable
\* instruction among instructions that are kept, and three kept instructions.
LongLists ==
    LET transfer == Instr(PublicKey(SYSTEM_PROGRAM_ID), Str("system"), Undef,
                          Parsed(Str("transfer"), TransferInfo), NoAccounts)
        token == Instr(Str(TOKEN_PROGRAM_ID), Str("spl-token"), Undef,
                       Parsed(Str("transfer"), TokenInfo), NoAccounts)
        memo == Instr(PublicKey(MEMO_V2), Str("spl-memo"), Undef,
                      Parsed(Str("memo"), NoInfo), NoAccounts)
        limit == Instr(PublicKey(COMPUTE_BUDGET_PROGRAM_ID), Undef, Undef,
                       Parsed(Str("setComputeUnitLimit"), Info([units |-> Num(1400000)])),
                       NoAccounts)
        unresolvable == Instr(Undef, Undef, Undef, NoParsed, Accounts(<< 0 >>))
    IN { << limit, transfer, token >>,
         << transfer, unresolvable, memo >>,
         << transfer, token, memo >> }

InstrLists == UNION { [1..n -> InstrPool] : n \in 0..MaxInstrs } \cup LongLists

\* The shapes in which a response carries its message.
Wrappings == {"transaction.message", "message", "bare", "transaction.instructions"}
Wrap(w, instrs, kh) ==
    LET msg == Obj(Undef, Undef, Arr(instrs), kh.keys, kh.header) IN
    CASE w = "transaction.message" -> Obj(Obj(Undef, msg, Undef, Undef, Undef),
                                          Undef, Undef, Undef, Undef)
      [] w = "message" -> Obj(Undef, msg, Undef, Undef, Undef)
      [] w = "bare" -> msg
      [] w = "transaction.instructions" ->
            Obj(Obj(Undef, Obj(Undef, Undef, Undef, kh.keys, kh.header),
                    Arr(instrs), Undef, Undef),
                Undef, Undef, Undef, Undef)

Responses ==
    { Wrap(w, instrs, kh) : w \in Wrappings, instrs \in InstrLists, kh \in KeysAndHeaders }
    \cup {EmptyObject}

(***************************************************************************)
(* The file cache.  A cache file holds JSON.stringify of the response, so  *)
(* reading it back gives the response with its PublicKey objects turned    *)
(* into strings.                                                           *)
(***************************************************************************)
NoEntry == [t |-> "absent"]
\* A cache file that does not hold a JSON document (a truncated write of an
\* interrupted run): it exists, and JSON.parse throws on its content.
Corrupt == [t |-> "corrupt"]

JsonKey(pk) == IF pk.t = "PublicKey" THEN Str(pk.b58) ELSE pk
JsonKeys(arr) == IF arr.t = "array" THEN Arr([k \in DOMAIN arr.a |-> JsonKey(arr.a[k])]) ELSE arr
\* JSON.stringify writes a Buffer as { type: 'Buffer', data: [...] }, which
\* is read back as a plain object.
JsonData(data) == IF data.t = "Buffer" THEN [t |-> "object", bytes |-> data.base64] ELSE data
JsonInstrs(arr) ==
    IF arr.t = "array"
    THEN Arr([k \in DOMAIN arr.a |->
                 [arr.a[k] EXCEPT !.programId = JsonKey(@), !.data = JsonData(@)]])
    ELSE arr

\* JSON.parse(JSON.stringify(obj))
RECURSIVE JsonRoundTrip(_)
JsonRoundTrip(obj) ==
    IF obj.t # "object" THEN obj
    ELSE Obj(JsonRoundTrip(obj.transaction), JsonRoundTrip(obj.message),
             JsonInstrs(obj.instructions), JsonKeys(obj.accountKeys), obj.header)

\* A variant of isCached that never finds an entry.
isCachedNever(c, sig) == FALSE

\* isCached(sig): the cache file exists.
isCached(c, sig) == c[sig] # NoEntry

\* readCache(sig): JSON.parse(fs.readFileSync(...)) returns the document of
\* the file or throws.
SyntaxError == "SyntaxError"
readCache(c, sig) ==
    IF c[sig] = Corrupt THEN Threw(SyntaxError) ELSE [t |-> "value", v |-> c[sig]]

\* A variant of writeCache that keeps an entry that is already there.
writeCacheOnce(c, sig, obj) ==
    IF c[sig] # NoEntry THEN c ELSE [c EXCEPT ![sig] = JsonRoundTrip(obj)]

\* A variant of writeCache that writes nothing.
writeCacheSkipped(c, sig, obj) == c

\* writeCache(sig, obj)
writeCache(c, sig, obj) == [c EXCEPT ![sig] = JsonRoundTrip(obj)]

(***************************************************************************)
(* What the providers answer, and what an earlier run left in the cache.   *)
(***************************************************************************)
\* getParsedTransaction: a system transfer, pre-parsed.
NetParsed ==
    Wrap("transaction.message",
         << Instr(PublicKey(SYSTEM_PROGRAM_ID), Str("system"), Undef,
                  Parsed(Str("transfer"), TransferInfo), NoAccounts) >>,
         [keys |-> Arr(Keys5), header |-> NoHeader])
\* getTransaction: an index-based compute-budget instruction only.
NetRaw ==
    Wrap("transaction.message",
         << Instr(Undef, Undef, Num(4), NoParsed, Accounts(<< >>)) >>,
         [keys |-> Arr(Keys6), header |-> Header(1, 0, 3)])
\* A document of an earlier run: no instructions.
CachedEarlier ==
    Wrap("transaction.message", << >>, [keys |-> Arr(Keys6), header |-> Header(1, 0, 3)])

\* A document of an earlier run whose token instruction carries a mint that
\* is not a string: decompileToTS throws on it.
CachedNumericMint ==
    Wrap("transaction.message",
         << Instr(Str(TOKEN_PROGRAM_ID), Str("spl-token"), Undef,
                  Parsed(Str("mintTo"), NumericMintInfo), NoAccounts) >>,
         [keys |-> Arr(Keys6), header |-> Header(1, 0, 3)])

SigPool == {"a", "b", "c", "d"}
RpcNames == {"rpc1", "rpc2", "rpcDown"}
\* An endpoint that answers no request: every request to it runs into the
\* timeout.
Unreachable == {"rpcDown"}
CachedDocument(s) == IF s = "b" THEN CachedNumericMint ELSE CachedEarlier
CacheWith(cached) == [s \in SigPool |-> IF s \in cached THEN CachedDocument(s) ELSE NoEntry]

\* The runs of the program that are explored: the endpoint list, the
\* signature file, the resume identifier and the cache directory.
\* The same cache directory with a corrupt file for an identifier.
CorruptFile(sc, sig) == [sc EXCEPT !.cache[sig] = Corrupt]
Scenario(rpcs, list, start, cached) ==
    [rpcs |-> rpcs, list |-> list, start |-> start, cache |-> CacheWith(cached),
     retries |-> 2]
\* The same run with MAX_RETRIES=1 in the environment.
OneAttempt(sc) == [sc EXCEPT !.retries = 1]
\* One endpoint shared by a full window of uncached identifiers.
FullWindowScenario == Scenario(<< "rpc1" >>, << "a", "b", "c" >>, Undef, {})
FullWindowTwoEndpoints ==
    Scenario(<< "rpc1", "rpc2" >>, << "a", "b", "c" >>, Undef, {})
Scenarios ==
    { FullWindowScenario,
      FullWindowTwoEndpoints,
      \* two windows, both fetching, over two endpoints and over one
      Scenario(<< "rpc1", "rpc2" >>, << "a", "b", "c", "d" >>, Undef, {"a", "b"}),
      Scenario(<< "rpc1" >>, << "a", "b", "c", "d" >>, Undef, {"a", "b"}),
      \* the same with one attempt for an identifier
      OneAttempt(Scenario(<< "rpc1", "rpc2" >>, << "a", "b", "c", "d" >>, Undef, {"a", "b"})),
      OneAttempt(Scenario(<< "rpc1" >>, << "a", "b", "c", "d" >>, Undef, {"a", "b"})),
      \* resume from the second identifier
      Scenario(<< "rpc1", "rpc2" >>, << "a", "b", "c", "d" >>, Str("b"), {"c"}),
      \* a window in which every identifier fails in its own way (a corrupt
      \* cache file, an endpoint that is down, a document the normalizer
      \* throws on), and a second window
      CorruptFile(Scenario(<< "rpcDown" >>, << "a", "c", "b", "d" >>, Undef, {"b", "d"}), "a"),
      \* a corrupt cache file next to fetches that succeed or fail
      CorruptFile(Scenario(<< "rpc1", "rpc2" >>, << "a", "b", "c", "d" >>, Undef, {"b"}), "a"),
      \* the same identifier twice in one window
      Scenario(<< "rpc1", "rpc2" >>, << "a", "a" >>, Undef, {}),
      OneAttempt(Scenario(<< "rpc1", "rpc2" >>, << "a", "a" >>, Undef, {})),
      \* resume from the third identifier, nothing cached
      Scenario(<< "rpc1", "rpc2" >>, << "a", "b", "c", "d" >>, Str("c"), {}),
      \* resume from an identifier that occurs twice
      Scenario(<< "rpc1" >>, << "a", "b", "c", "b" >>, Str("b"), {"b", "c"}),
      \* resume identifier absent from the list
      Scenario(<< "rpc1" >>, << "a", "b", "c", "d" >>, Str("z"), {}),
      \* empty list
      Scenario(<< "rpc1", "rpc2" >>, << >>, Undef, {}) }

MaxTasks == Cardinality(SigPool)
Positions == 1..MaxTasks

NeverUsed == -1
NoRpc == "none"

IdleTask == [pc |-> "idle", sig |-> "", attempt |-> 0, rpc |-> NoRpc, at |-> 0,
             timedOut |-> FALSE, outcomes |-> << >>, result |-> Undef,
             outcome |-> "none"]

(***************************************************************************)
(* Time: the next callback to run is one whose timer or response is due    *)
(* first.                                                                  *)
(***************************************************************************)
Suspended(p) == task[p].pc \in {"pacing", "parsedReq", "rawReq", "backoff"}
EventTimes ==
    { task[p].at : p \in { q \in Positions : Suspended(q) } }
    \cup (IF runPc = "batchDelay" THEN {runAt} ELSE {})
Due(t) == \A x \in EventTimes : t <= x
Max(a, b) == IF a >= b THEN a ELSE b

\* The continuations that wait in the microtask queue: fetchParsedTx after
\* `await nextRpc()` when nextRpc has returned, and processSig after
\* `await fetchParsedTx(sig)` when fetchParsedTx has returned or thrown.
MicrotaskPending(p) == task[p].pc \in {"granted", "returned"}

\* The queue is first in, first out.  Continuations enter it in the order
\* of the positions (one window's calls in list order, direct calls in call
\* order), and a timer or a response adds one to an empty queue.
NextMicrotask(p) ==
    MicrotaskPending(p) /\ \A q \in 1..(p - 1) : ~MicrotaskPending(q)

\* Synchronous code of run() is not interrupted: microtasks run when it has
\* reached an await.
MicrotasksRun == runPc \in {"awaiting", "batchDelay", "client"}

\* Timers and responses are handled when the microtask queue is empty.
CallbacksRun == MicrotasksRun /\ \A p \in Positions : ~MicrotaskPending(p)

(***************************************************************************)
(* The endpoint pool: nextRpc.                                             *)
(***************************************************************************)
\* A variant of NextIndex that passes over an endpoint with recorded failures.
NextIndexAvoidingFailures(idx, len) ==
    IF rpcStats[RPC_LIST[((idx + 1) % len) + 1]].failures > 0
    THEN (idx + 2) % len
    ELSE (idx + 1) % len

\* A variant of NextIndex that stays on the index it has reached.
NextIndexStuck(idx, len) == IF idx < 0 THEN 0 ELSE idx

\* A variant of NextIndex that advances by two.
NextIndexSkipping(idx, len) == (idx + 2) % len

\* rpcIndex = (rpcIndex + 1) % RPC_LIST.length
NextIndex(idx, len) == (idx + 1) % len

\* The wait nextRpc asks for: 0 when the endpoint may be used at once.
PacingWait(last, t) ==
    IF last # NeverUsed /\ t - last < PER_RPC_DELAY_MS
    THEN PER_RPC_DELAY_MS - (t - last)
    ELSE 0

\* The answer a request will get: in time, or not before the timeout.
Fates == {"answer", "timeout"}
\* The faults the environment has decided on: the ones that have happened
\* and the timeouts that are still to fire.
PendingTimeouts ==
    Cardinality({ p \in Positions :
        task[p].pc \in {"parsedReq", "rawReq"} /\ task[p].timedOut })
FaultBudget == IF Len(allSigs) = 1 THEN MaxFaults ELSE MaxWindowFaults
FaultsLeft == faults + PendingTimeouts < FaultBudget
FateAllowed(rpc, fate) ==
    IF rpc \in Unreachable THEN fate = "timeout"
    ELSE fate = "answer" \/ FaultsLeft
ResponseTime(t, fate) ==
    IF fate = "answer" THEN t + Latency ELSE t + REQUEST_TIMEOUT_MS

\* The end of nextRpc: rpcLastUsed[rpc] = Date.now(); return rpc.  The
\* caller is suspended at `await nextRpc()` and goes on in a microtask.
Grant(p, sig, attempt, rpc, t) ==
    /\ rpcLastUsed' = [rpcLastUsed EXCEPT ![rpc] = t]
    /\ uses' = uses \cup {[rpc |-> rpc, time |-> t, pos |-> p, attempt |-> attempt]}
    /\ task' = [task EXCEPT ![p] =
           [@ EXCEPT !.pc = "granted", !.sig = sig, !.attempt = attempt,
                     !.rpc = rpc, !.at = t]]

\* attempt++; const rpc = await nextRpc(): the part of nextRpc up to its
\* wait, and the rest of it when there is nothing to wait for.  Either way
\* fetchParsedTx is suspended at the await.
BeginAttempt(p, sig, attempt, t) ==
    LET idx == NextIndex(rpcIndex, Len(RPC_LIST))
        rpc == RPC_LIST[idx + 1]
        w == PacingWait(rpcLastUsed[rpc], t)
    IN /\ rpcIndex' = idx
       /\ rpcStats' = [rpcStats EXCEPT ![rpc].requests = @ + 1]
       /\ rpcCalls' = Append(rpcCalls, rpc)
       /\ IF w > 0
          THEN /\ task' = [task EXCEPT ![p] =
                      [@ EXCEPT !.pc = "pacing", !.sig = sig, !.attempt = attempt,
                                !.rpc = rpc, !.at = t + w]]
               /\ UNCHANGED << rpcLastUsed, uses >>
          ELSE Grant(p, sig, attempt, rpc, t)
       /\ UNCHANGED requests

(***************************************************************************)
(* processSig and fetchParsedTx.                                           *)
(***************************************************************************)
Value(v) == [t |-> "value", v |-> v]

\* What processSig does with the result of the fetch: decompile and write
\* the file, report no-decompile, or catch and log the error.
ProcessOutcome(sig, result) ==
    IF result.t = "threw" THEN "error"
    ELSE LET de == decompileToTS(sig, result.v) IN
         IF de.t = "threw" THEN "error"
         ELSE IF de = Null THEN "no-decompile" ELSE de.kind

\* A variant of Finished without the try / catch of processSig: a call that
\* threw never ends for Promise.all.
FinishedUncaught(tk, result) ==
    [tk EXCEPT !.pc = IF ProcessOutcome(tk.sig, result) = "error"
                      THEN "rejected" ELSE "done",
               !.result = result,
               !.outcome = ProcessOutcome(tk.sig, result)]

\* processSig ends: it has the document of the cache or the result of
\* fetchParsedTx, decompiles it and writes the file, or logs the failure.
Finished(tk, result) ==
    [tk EXCEPT !.pc = "done", !.result = result,
               !.outcome = ProcessOutcome(tk.sig, result)]

\* fetchParsedTx returns or throws.  A direct caller has the result; in
\* run() the caller is processSig, suspended at `await fetchParsedTx(sig)`,
\* which goes on in a microtask.
Returned(tk, result) ==
    [tk EXCEPT !.pc = IF runPc = "client" THEN "done" ELSE "returned",
               !.result = result]

\* A variant of Backoff that does not sleep after the last attempt.
BackoffNoneAfterLast(attempt, is429) ==
    IF attempt >= MAX_RETRIES THEN 0
    ELSE IF is429 THEN BASE_BACKOFF_MS * 3^attempt ELSE BASE_BACKOFF_MS * 2^attempt

\* A variant of Backoff with the base of a rate limit for every attempt.
BackoffAlwaysSteep(attempt, is429) == BASE_BACKOFF_MS * 3^attempt

\* A variant of Backoff with the same base for every class of error.
BackoffSameBase(attempt, is429) == BASE_BACKOFF_MS * 2^attempt

\* A variant of RetryAllowed that allows one attempt more.
RetryAllowedInclusive(attempt) == attempt <= MAX_RETRIES

\* while (attempt < MAX_RETRIES)
RetryAllowed(attempt) == attempt < MAX_RETRIES

\* BASE_BACKOFF_MS * Math.pow(3, attempt) or BASE_BACKOFF_MS * Math.pow(2, attempt)
Backoff(attempt, is429) ==
    IF is429 THEN BASE_BACKOFF_MS * 3^attempt ELSE BASE_BACKOFF_MS * 2^attempt

\* The messages of the errors a request is rejected with: the timeout of
\* the race, and what the provider's client throws.
TimeoutMessage == "timeout"
ProviderMessages == {"429 Too Many Requests", "fetch failed"}

\* A variant of Is429 that takes every error for a rate limit.
Is429Always(message) == TRUE

\* e.message && (e.message.includes('429') || e.message.includes('Too Many Requests'))
Is429(message) == message = "429 Too Many Requests"

\* const conn = new Connection(rpc, ...): both requests of an attempt go
\* through the connection of the endpoint that nextRpc returned.
\* A variant of ConnectionOf that sends to the first endpoint of the list.
ConnectionToFirst(tk) == RPC_LIST[1]

ConnectionOf(tk) == tk.rpc

\* Math.random() * max: any delay of [0, max), which the timer and the
\* clock, counting whole milliseconds, round down or up.
JitterChoices(max) == 0..max

\* A variant of Catch that leaves a document in the cache.
CatchWritingCache(p, t, is429) ==
    /\ rpcStats' = [rpcStats EXCEPT ![task[p].rpc].failures = @ + 1]
    /\ faults' = faults + 1
    /\ cache' = writeCache(cache, task[p].sig, NetRaw)
    /\ \E j \in JitterChoices(ERROR_JITTER_MS) :
          task' = [task EXCEPT ![p] =
              [@ EXCEPT !.pc = "backoff", !.at = t + Backoff(task[p].attempt, is429) + j,
                        !.outcomes = Append(@, IF is429 THEN "429" ELSE "error")]]
    /\ UNCHANGED << requests, rpcIndex, rpcLastUsed, rpcCalls, uses >>

\* A variant of Catch that counts two failures for one error.
CatchCountingTwice(p, t, is429) ==
    /\ rpcStats' = [rpcStats EXCEPT ![task[p].rpc].failures = @ + 2]
    /\ faults' = faults + 1
    /\ \E j \in JitterChoices(ERROR_JITTER_MS) :
          task' = [task EXCEPT ![p] =
              [@ EXCEPT !.pc = "backoff", !.at = t + Backoff(task[p].attempt, is429) + j,
                        !.outcomes = Append(@, IF is429 THEN "429" ELSE "error")]]
    /\ UNCHANGED << cache, requests, rpcIndex, rpcLastUsed, rpcCalls, uses >>

\* catch (e): count the failure and sleep the backoff of the error's class.
Catch(p, t, is429) ==
    /\ rpcStats' = [rpcStats EXCEPT ![task[p].rpc].failures = @ + 1]
    /\ faults' = faults + 1
    /\ \E j \in JitterChoices(ERROR_JITTER_MS) :
          task' = [task EXCEPT ![p] =
              [@ EXCEPT !.pc = "backoff", !.at = t + Backoff(task[p].attempt, is429) + j,
                        !.outcomes = Append(@, IF is429 THEN "429" ELSE "error")]]
    /\ UNCHANGED << cache, requests, rpcIndex, rpcLastUsed, rpcCalls, uses >>

\* if (parsed) / if (raw): count the success, cache the response, return it.
Succeed(p, t, response) ==
    /\ rpcStats' = [rpcStats EXCEPT ![task[p].rpc].success = @ + 1]
    /\ cache' = writeCache(cache, task[p].sig, response)
    /\ task' = [task EXCEPT ![p] =
           Returned([@ EXCEPT !.outcomes = Append(@, "value")], Value(response))]
    /\ UNCHANGED << faults, requests, rpcIndex, rpcLastUsed, rpcCalls, uses >>

\* const conn = new Connection(rpc, ...); parsed = await Promise.race([...]):
\* fetchParsedTx goes on after `await nextRpc()` and issues the pre-parsed
\* request under the timeout.
ParsedRequest(p) ==
    /\ MicrotasksRun
    /\ NextMicrotask(p)
    /\ task[p].pc = "granted"
    /\ requests' = requests \cup
           {[rpc |-> ConnectionOf(task[p]), time |-> now, kind |-> "parsed", pos |-> p,
             attempt |-> task[p].attempt]}
    /\ \E fate \in Fates :
          /\ FateAllowed(ConnectionOf(task[p]), fate)
          /\ task' = [task EXCEPT ![p] =
                 [@ EXCEPT !.pc = "parsedReq", !.at = ResponseTime(now, fate),
                           !.timedOut = (fate = "timeout")]]
    /\ UNCHANGED << now, poolVars, cache, faults, configVars, runVars, normVars >>

\* processSig goes on after `await fetchParsedTx(sig)`.
ProcessSigResume(p) ==
    /\ MicrotasksRun
    /\ NextMicrotask(p)
    /\ task[p].pc = "returned"
    /\ task' = [task EXCEPT ![p] = Finished(@, @.result)]
    /\ UNCHANGED << now, poolVars, cache, requests, faults, configVars, runVars,
                    normVars >>

\* The pre-parsed request settles.
ParsedResponse(p) ==
    /\ CallbacksRun
    /\ task[p].pc = "parsedReq"
    /\ Due(task[p].at)
    /\ now' = Max(now, task[p].at)
    /\ IF task[p].timedOut
       THEN Catch(p, now', Is429(TimeoutMessage))
       ELSE \/ Succeed(p, now', NetParsed)
            \/ /\ FaultsLeft
               /\ \E message \in ProviderMessages : Catch(p, now', Is429(message))
            \/ \* null: issue the raw request to the same endpoint
               /\ \E fate \in Fates :
                     /\ FateAllowed(ConnectionOf(task[p]), fate)
                     /\ task' = [task EXCEPT ![p] =
                            [@ EXCEPT !.pc = "rawReq", !.at = ResponseTime(now', fate),
                                      !.timedOut = (fate = "timeout")]]
               /\ requests' = requests \cup
                      {[rpc |-> ConnectionOf(task[p]), time |-> now', kind |-> "raw", pos |-> p,
                        attempt |-> task[p].attempt]}
               /\ UNCHANGED << cache, faults, rpcStats, rpcIndex, rpcLastUsed,
                               rpcCalls, uses >>
    /\ UNCHANGED << configVars, runVars, normVars >>

\* The raw request settles.
RawResponse(p) ==
    /\ CallbacksRun
    /\ task[p].pc = "rawReq"
    /\ Due(task[p].at)
    /\ now' = Max(now, task[p].at)
    /\ IF task[p].timedOut
       THEN Catch(p, now', Is429(TimeoutMessage))
       ELSE \/ Succeed(p, now', NetRaw)
            \/ /\ FaultsLeft
               /\ \E message \in ProviderMessages : Catch(p, now', Is429(message))
            \/ \* null again: sleep the base backoff, no counter changes
               /\ FaultsLeft
               /\ faults' = faults + 1
               /\ \E j \in JitterChoices(EMPTY_JITTER_MS) :
                     task' = [task EXCEPT ![p] =
                         [@ EXCEPT !.pc = "backoff",
                                   !.at = now' + Backoff(task[p].attempt, FALSE) + j,
                                   !.outcomes = Append(@, "empty")]]
               /\ UNCHANGED << cache, requests, rpcStats, rpcIndex, rpcLastUsed,
                               rpcCalls, uses >>
    /\ UNCHANGED << configVars, runVars, normVars >>

\* The wait inside nextRpc ends.
PacingDone(p) ==
    /\ CallbacksRun
    /\ task[p].pc = "pacing"
    /\ Due(task[p].at)
    /\ now' = Max(now, task[p].at)
    /\ Grant(p, task[p].sig, task[p].attempt, task[p].rpc, now')
    /\ UNCHANGED << rpcIndex, rpcStats, rpcCalls, requests, cache, faults >>
    /\ UNCHANGED << configVars, runVars, normVars >>

\* The backoff sleep ends: the next attempt, or the throw after the loop.
BackoffDone(p) ==
    /\ CallbacksRun
    /\ task[p].pc = "backoff"
    /\ Due(task[p].at)
    /\ now' = Max(now, task[p].at)
    /\ IF RetryAllowed(task[p].attempt)
       THEN BeginAttempt(p, task[p].sig, task[p].attempt + 1, now')
       ELSE /\ task' = [task EXCEPT ![p] = Returned(@, Threw("FetchExhausted"))]
            /\ UNCHANGED << poolVars, requests >>
    /\ UNCHANGED << cache, faults >>
    /\ UNCHANGED << configVars, runVars, normVars >>

\* fetchParsedTx(sig) from its first line to its return for an identifier
\* of the cache, or to its suspension at `await nextRpc()`.
FetchParsedTx(p, sig) ==
    IF isCached(cache, sig)
    THEN /\ task' = [task EXCEPT ![p] =
                Returned([@ EXCEPT !.sig = sig], readCache(cache, sig))]
         /\ UNCHANGED << poolVars, requests >>
    ELSE IF RetryAllowed(0)
    THEN BeginAttempt(p, sig, 1, now)
    ELSE /\ task' = [task EXCEPT ![p] =
                Returned([@ EXCEPT !.sig = sig], Threw("FetchExhausted"))]
         /\ UNCHANGED << poolVars, requests >>

(***************************************************************************)
(* run(): the resume point and the windows of CONCURRENCY identifiers.     *)
(***************************************************************************)
\* A variant of IndexOf that answers 0 for an identifier not in the list.
IndexOfOrZero(list, x) ==
    IF \E k \in DOMAIN list : list[k] = x
    THEN (CHOOSE k \in DOMAIN list : list[k] = x /\ \A m \in 1..(k - 1) : list[m] # x) - 1
    ELSE 0

\* allSigs.indexOf(START_FROM_SIG)
IndexOf(list, x) ==
    IF \E k \in DOMAIN list : list[k] = x
    THEN (CHOOSE k \in DOMAIN list : list[k] = x /\ \A m \in 1..(k - 1) : list[m] # x) - 1
    ELSE -1

\* A variant of SliceFrom that starts after the resume identifier.
SliceAfter(list, start) == SubSeq(list, start + 2, Len(list))

\* allSigs.slice(startIndex)
SliceFrom(list, start) == SubSeq(list, start + 1, Len(list))

RunStart ==
    /\ runPc = "start"
    /\ IF Truthy(START_FROM_SIG)
       THEN IF IndexOf(allSigs, START_FROM_SIG.v) = -1
            THEN /\ runPc' = "exit1"
                 /\ UNCHANGED sigs
            ELSE /\ sigs' = SliceFrom(allSigs, IndexOf(allSigs, START_FROM_SIG.v))
                 /\ runPc' = "launching"
       ELSE /\ sigs' = allSigs
            /\ runPc' = IF Len(allSigs) > 0 THEN "launching" ELSE "done"
    /\ UNCHANGED << configVars, now, poolVars, cache, task, i, launched, runAt,
                    requests, faults, normVars >>

\* A variant of Batch whose slice is one identifier longer.
BatchOverlapping(list, from) ==
    SubSeq(list, from + 1, IF from + CONCURRENCY + 1 < Len(list)
                           THEN from + CONCURRENCY + 1 ELSE Len(list))

\* sigs.slice(i, i + CONCURRENCY)
Batch(list, from) ==
    SubSeq(list, from + 1, IF from + CONCURRENCY < Len(list)
                           THEN from + CONCURRENCY ELSE Len(list))

\* batch.map(processSig): processSig of the next identifier of the window,
\* to its end for an identifier of the cache, or to its suspension at
\* `await fetchParsedTx(sig)`.
LaunchTask ==
    /\ runPc = "launching"
    /\ LET p == i + launched + 1
           sig == Batch(sigs, i)[launched + 1]
           last == launched + 1 = Len(Batch(sigs, i))
       IN /\ IF isCached(cache, sig)
             THEN /\ task' = [task EXCEPT ![p] =
                         Finished([@ EXCEPT !.sig = sig], readCache(cache, sig))]
                  /\ UNCHANGED << poolVars, requests >>
             ELSE FetchParsedTx(p, sig)
          /\ launched' = launched + 1
          /\ runPc' = IF last THEN "awaiting" ELSE "launching"
    /\ UNCHANGED << configVars, now, cache, sigs, i, runAt, faults, normVars >>

\* A variant of PromiseAll that settles with the first call that ends.
PromiseAny(first, count) ==
    \E p \in (first + 1)..(first + count) : task[p].pc = "done"

\* Promise.all(batch.map(processSig)) is fulfilled: every call has ended.
PromiseAll(first, count) ==
    \A p \in (first + 1)..(first + count) : task[p].pc = "done"

\* await Promise.all(...) returns; i += CONCURRENCY; wait or leave the loop.
WindowEnd ==
    /\ runPc = "awaiting"
    /\ PromiseAll(i, launched)
    /\ i' = i + CONCURRENCY
    /\ launched' = 0
    /\ IF i' < Len(sigs)
       THEN /\ runPc' = "batchDelay"
            /\ runAt' = now + BATCH_DELAY_MS
       ELSE /\ runPc' = "done"
            /\ UNCHANGED runAt
    /\ UNCHANGED << configVars, now, poolVars, cache, task, sigs, requests, faults,
                    normVars >>

\* The inter-window wait ends: the next window starts.
BatchDelayDone ==
    /\ runPc = "batchDelay"
    /\ Due(runAt)
    /\ now' = Max(now, runAt)
    /\ runPc' = "launching"
    /\ UNCHANGED << configVars, poolVars, cache, task, sigs, i, launched, runAt,
                    requests, faults, normVars >>

(***************************************************************************)
(* The program: run() on a signature list, a pool and a cache directory.   *)
(***************************************************************************)
InitIdle ==
    /\ now = 0
    /\ rpcIndex = -1
    /\ rpcStats = [r \in RpcNames |-> [requests |-> 0, success |-> 0, failures |-> 0]]
    /\ rpcLastUsed = [r \in RpcNames |-> NeverUsed]
    /\ task = [p \in Positions |-> IdleTask]
    /\ sigs = << >>
    /\ i = 0
    /\ launched = 0
    /\ runAt = 0
    /\ rpcCalls = << >>
    /\ uses = {}
    /\ requests = {}
    /\ faults = 0
    /\ normCalls = 0
    /\ normOther = Null
    /\ normFrame = NoFrame

Init ==
    /\ InitIdle
    /\ \E sc \in Scenarios :
          /\ RPC_LIST = sc.rpcs
          /\ allSigs = sc.list
          /\ START_FROM_SIG = sc.start
          /\ MAX_RETRIES = sc.retries
          /\ cache = sc.cache
    /\ runPc = "start"
    /\ normIn = EmptyObject
    /\ normOut = Null
    /\ normPc = "unused"

Next ==
    \/ RunStart
    \/ LaunchTask
    \/ WindowEnd
    \/ BatchDelayDone
    \/ \E p \in Positions : ParsedResponse(p)
    \/ \E p \in Positions : RawResponse(p)
    \/ \E p \in Positions : PacingDone(p)
    \/ \E p \in Positions : BackoffDone(p)
    \/ \E p \in Positions : ParsedRequest(p)
    \/ \E p \in Positions : ProcessSigResume(p)

Spec == Init /\ [][Next]_vars

(***************************************************************************)
(* run() on one identifier and one endpoint: both attempts of the fetch    *)
(* may end without a result.  With one identifier there is one window and  *)
(* nextRpc never waits (a retry comes a backoff after the last use), so    *)
(* the steps of Next that end a pacing wait or the wait between two        *)
(* windows are never enabled and NextRetry leaves them out.                *)
(***************************************************************************)
InitRetry ==
    /\ InitIdle
    /\ RPC_LIST = << "rpc1" >>
    /\ allSigs = << "a" >>
    /\ START_FROM_SIG = Undef
    /\ MAX_RETRIES = 2
    /\ cache = CacheWith({})
    /\ runPc = "start"
    /\ normIn = EmptyObject
    /\ normOut = Null
    /\ normPc = "unused"

NextRetry ==
    \/ RunStart
    \/ LaunchTask
    \/ WindowEnd
    \/ \E p \in Positions : ParsedResponse(p)
    \/ \E p \in Positions : RawResponse(p)
    \/ \E p \in Positions : BackoffDone(p)
    \/ \E p \in Positions : ParsedRequest(p)
    \/ \E p \in Positions : ProcessSigResume(p)

SpecRetry == InitRetry /\ [][NextRetry]_vars

(***************************************************************************)
(* The fetch client on its own: a caller invokes fetchParsedTx directly,   *)
(* on cached and uncached identifiers, one call or two at a time.          *)
(***************************************************************************)
InitFetch ==
    /\ InitIdle
    /\ RPC_LIST \in { << "rpc1" >>, << "rpc1", "rpc2" >> }
    /\ allSigs = << >>
    /\ START_FROM_SIG = Undef
    /\ MAX_RETRIES \in {1, 2}
    /\ cache = CacheWith({"b"})
    /\ runPc = "client"
    /\ normIn = EmptyObject
    /\ normOut = Null
    /\ normPc = "unused"

\* A direct call of fetchParsedTx.  The caller makes its calls one at a
\* time or two at once, as run() does for a window of two: a call is made
\* when no call waits for a timer or a response, alone or right after one
\* other call in the same synchronous code.
CallFetch(sig) ==
    /\ runPc = "client"
    /\ launched < MaxCalls
    /\ \A p \in Positions : ~Suspended(p)
    /\ Cardinality({ p \in Positions : MicrotaskPending(p) }) <= 1
    /\ FetchParsedTx(launched + 1, sig)
    /\ launched' = launched + 1
    /\ UNCHANGED << configVars, now, cache, runPc, sigs, i, runAt, faults, normVars >>

NextFetch ==
    \/ \E sig \in {"a", "b"} : CallFetch(sig)
    \/ \E p \in Positions : ParsedResponse(p)
    \/ \E p \in Positions : RawResponse(p)
    \/ \E p \in Positions : PacingDone(p)
    \/ \E p \in Positions : BackoffDone(p)
    \/ \E p \in Positions : ParsedRequest(p)

SpecFetch == InitFetch /\ [][NextFetch]_vars

\* run() when the event loop keeps running: synchronous code runs on, the
\* microtask queue is drained, every timer fires, and every request is
\* answered or times out (no call waits for a request forever).  The runs
\* are those of Spec.
InitLive ==
    /\ InitIdle
    /\ \E sc \in Scenarios :
          /\ RPC_LIST = sc.rpcs
          /\ allSigs = sc.list
          /\ START_FROM_SIG = sc.start
          /\ MAX_RETRIES = sc.retries
          /\ cache = sc.cache
    /\ runPc = "start"
    /\ normIn = EmptyObject
    /\ normOut = Null
    /\ normPc = "unused"
RequestsAreAnswered ==
    \A p \in Positions : []<>(task[p].pc \notin {"parsedReq", "rawReq"})
MicrotasksAreRun ==
    \A p \in Positions : []<>(~MicrotaskPending(p))
SpecLive ==
    /\ InitLive /\ [][Next]_vars
    /\ WF_vars(RunStart)
    /\ WF_vars(LaunchTask)
    /\ WF_vars(WindowEnd)
    /\ WF_vars(BatchDelayDone)
    /\ WF_vars(\E p \in Positions : PacingDone(p))
    /\ WF_vars(\E p \in Positions : BackoffDone(p))
    /\ MicrotasksAreRun
    /\ RequestsAreAnswered

(***************************************************************************)
(* The normalizer as a state machine: calls of decompileToTS on a response *)
(* and, between them, on another response.  A call runs from its entry to  *)
(* its return without another call in between (the function is             *)
(* synchronous); its steps are the entry, the iterations of the            *)
(* instruction loop and the return.  What a step assigns to is what the    *)
(* lines it stands for assign to: the function's own variables, never a    *)
(* property of `parsed` or of an instruction.                               *)
(***************************************************************************)
InitNorm ==
    /\ InitIdle
    /\ RPC_LIST = << "rpc1" >>
    /\ allSigs = << >>
    /\ START_FROM_SIG = Undef
    /\ MAX_RETRIES = 2
    /\ cache = [s \in SigPool |-> NoEntry]
    /\ runPc = "unused"
    /\ normIn \in Responses
    /\ normOut = Null
    /\ normPc = "ready"

\* The identifiers the two responses are normalized under.
ResponseSig == "a"
OtherSig == "b"

\* `parsed` of the call in progress.
Argument == IF normFrame.on = "response" THEN normIn ELSE normFrame.other

\* The call in progress returns or throws: the caller has the result, the
\* variables of the call are garbage.
Return(result) ==
    IF normFrame.on = "response"
    THEN /\ normOut' = result
         /\ normPc' = IF result.t = "threw" THEN "threw" ELSE "done"
         /\ normCalls' = normCalls + 1
         /\ UNCHANGED normOther
    ELSE /\ normOther' = result
         /\ UNCHANGED << normOut, normPc, normCalls >>

\* Lines 216-226: message, instructions, `return null` on an empty list,
\* accountKeys and the three accumulators.
Enter(on, sig, other) ==
    LET parsed == IF on = "response" THEN normIn ELSE other IN
    /\ normFrame.on = "none"
    /\ IF Len(InstructionsOf(parsed)) = 0
       THEN /\ normFrame' = normFrame
            /\ IF on = "response"
               THEN /\ normOut' = Null
                    /\ normPc' = "done"
                    /\ normCalls' = normCalls + 1
                    /\ UNCHANGED normOther
               ELSE /\ normOther' = Null
                    /\ UNCHANGED << normOut, normPc, normCalls >>
       ELSE /\ normFrame' = [on |-> on, sig |-> sig, other |-> other, k |-> 1,
                             acc |-> NewAccumulators]
            /\ UNCHANGED << normOut, normPc, normCalls, normOther >>
    /\ UNCHANGED << normIn, configVars, now, poolVars, cache, task, runVars,
                    requests, faults >>

\* decompileToTS(sig, parsed) is called on the response.
Normalize ==
    /\ normPc \in {"ready", "done", "threw"}
    /\ normCalls < MaxNormCalls
    /\ Enter("response", ResponseSig, Null)

\* Between two calls on the response, a call on another response.
NormalizeOther ==
    /\ normPc \in {"done", "threw"}
    /\ normCalls \in 1..(MaxNormCalls - 1)
    /\ normOther = Null
    /\ \E other \in {NetParsed, NetRaw} : Enter("other", OtherSig, other)

\* Lines 228-337: one iteration of `for (const instr of instructions)`.  An
\* exception of the iteration ends the call.
NormalizeInstruction ==
    /\ normFrame.on # "none"
    /\ normFrame.k <= Len(InstructionsOf(Argument))
    /\ LET acc == LoopBody(normFrame.acc, InstructionsOf(Argument)[normFrame.k],
                           HeaderOf(Argument), AccountKeysOf(Argument))
       IN IF acc.threw
          THEN /\ normFrame' = [normFrame EXCEPT !.on = "none", !.acc = acc]
               /\ Return(Threw(TypeError))
          ELSE /\ normFrame' = [normFrame EXCEPT !.k = @ + 1, !.acc = acc]
               /\ UNCHANGED << normOut, normPc, normCalls, normOther >>
    /\ UNCHANGED << normIn, configVars, now, poolVars, cache, task, runVars,
                    requests, faults >>

\* Lines 339-357: the loop is over; kind, ts and `return { kind, ts }`.
NormalizeReturn ==
    /\ normFrame.on # "none"
    /\ normFrame.k > Len(InstructionsOf(Argument))
    /\ normFrame' = [normFrame EXCEPT !.on = "none"]
    /\ Return(ReturnValue(normFrame.sig, normFrame.acc))
    /\ UNCHANGED << normIn, configVars, now, poolVars, cache, task, runVars,
                    requests, faults >>

NextNorm ==
    \/ Normalize
    \/ NormalizeOther
    \/ NormalizeInstruction
    \/ NormalizeReturn

SpecNorm == InitNorm /\ [][NextNorm]_vars

(***************************************************************************)
(* Claims about the cache, the fetch client and the pool.                  *)
(***************************************************************************)
\* C1: a call of fetchParsedTx on an identifier that is in the cache returns
\* the cached document and issues no network request (SpecFetch).
C1_CachedFetchMakesNoRequest ==
    [][ \A p \in Positions : \A sig \in SigPool :
          ( /\ task[p].pc = "idle"
            /\ task'[p].pc # "idle"
            /\ task'[p].sig = sig
            /\ cache[sig] # NoEntry )
          => ( /\ task'[p].pc = "done"
               /\ task'[p].result = Value(cache[sig])
               /\ requests' = requests
               /\ rpcCalls' = rpcCalls ) ]_vars

\* C1 witness: after an earlier call fetched "a" from the network, a later
\* call on "a" ended without any attempt, with the cached document.
C1_Witness ==
    \E p \in Positions :
        /\ task[p].pc = "done"
        /\ task[p].sig = "a"
        /\ task[p].attempt = 0
        /\ task[p].result = Value(cache["a"])
        /\ \E r \in requests : r.pos < p

\* The requests of one call.
RequestsOf(p, kind) == { r \in requests : r.pos = p /\ r.kind = kind }

\* C2: a fetch makes at most MAX_RETRIES attempts, and it fails with
\* FetchExhausted only after exactly MAX_RETRIES attempts that each ended in
\* a thrown error or in two empty answers.
C2_ExhaustedOnlyAfterMaxRetries ==
    \A p \in Positions :
        LET sent == Cardinality(RequestsOf(p, "parsed")) IN
        /\ task[p].attempt <= MAX_RETRIES
        /\ sent <= MAX_RETRIES
        /\ task[p].result = Threw("FetchExhausted") =>
              /\ task[p].attempt = MAX_RETRIES
              /\ Len(task[p].outcomes) = MAX_RETRIES
              /\ sent = MAX_RETRIES
              /\ \A k \in DOMAIN task[p].outcomes :
                    task[p].outcomes[k] \in {"429", "error", "empty"}

\* C2 witness: a fetch of two attempts has failed with FetchExhausted.
C2_Witness ==
    \E p \in Positions :
        /\ MAX_RETRIES = 2
        /\ task[p].pc = "done"
        /\ task[p].result = Threw("FetchExhausted")
        /\ "empty" \in Range(task[p].outcomes)

\* C3: two uses of the same endpoint handed out by nextRpc are at least
\* PER_RPC_DELAY_MS apart.
C3_UsesOfAnEndpointArePaced ==
    \A u1 \in uses : \A u2 \in uses :
        (u1 # u2 /\ u1.rpc = u2.rpc /\ u1.time <= u2.time)
            => u2.time - u1.time >= PER_RPC_DELAY_MS

\* C4: two network requests to the same endpoint are at least 0.3 seconds
\* apart.
C4_RequestsToAnEndpointAreSpaced ==
    \A r1 \in requests : \A r2 \in requests :
        (r1 # r2 /\ r1.rpc = r2.rpc /\ r1.time <= r2.time)
            => r2.time - r1.time >= PER_RPC_DELAY_MS

\* How often an endpoint occurs in the sequence of calls.
CallsTo(rpc) == Cardinality({ k \in DOMAIN rpcCalls : rpcCalls[k] = rpc })

\* C5: the calls of nextRpc return the endpoints in list rotation starting
\* at the first one, so after N calls over M endpoints each endpoint was
\* returned floor(N/M) or ceil(N/M) times.
C5_RoundRobin ==
    LET M == Len(RPC_LIST)
        N == Len(rpcCalls)
    IN /\ \A k \in DOMAIN rpcCalls : rpcCalls[k] = RPC_LIST[((k - 1) % M) + 1]
       /\ \A m \in DOMAIN RPC_LIST :
             CallsTo(RPC_LIST[m]) \in { N \div M, (N + M - 1) \div M }

\* C5 witness: three calls or more over two endpoints.
C5_Witness == Len(RPC_LIST) = 2 /\ Len(rpcCalls) >= 3

(***************************************************************************)
(* Claims about the normalizer and the classifier (SpecNorm).              *)
(***************************************************************************)
Normalized == normPc = "done" /\ normOut.t = "object"

\* Every input instruction is index-based (the raw encoding).
AllRaw == \A k \in DOMAIN InstructionsOf(normIn) :
              InstructionsOf(normIn)[k].accounts.t = "array"

\* The index of an address in the account-key list of the input.
IndexOfKey(pubkey) ==
    CHOOSE ix \in 0..(Len(AccountKeysOf(normIn)) - 1) :
        KeyString(At(AccountKeysOf(normIn), ix)) = pubkey

\* The header counts of the input, a missing header counting as zeros.
HdrSigners == IF HeaderOf(normIn) = NoHeader THEN 0
              ELSE HeaderOf(normIn).numRequiredSignatures
HdrRoSigned == IF HeaderOf(normIn) = NoHeader THEN 0
               ELSE HeaderOf(normIn).numReadonlySignedAccounts
HdrRoUnsigned == IF HeaderOf(normIn) = NoHeader THEN 0
                 ELSE HeaderOf(normIn).numReadonlyUnsignedAccounts

\* i lies in the read-only signed range or in the read-only unsigned range.
InReadOnlyRange(ix) ==
    \/ (HdrSigners - HdrRoSigned <= ix /\ ix < HdrSigners)
    \/ (Len(AccountKeysOf(normIn)) - HdrRoUnsigned <= ix /\ ix < Len(AccountKeysOf(normIn)))

\* The keys of all instructions of the result.
OutKeys ==
    UNION { Range(normOut.instructions[k].keys) : k \in DOMAIN normOut.instructions }

\* C6: in the raw encoding an account referenced at index i is writable iff
\* i lies outside both read-only ranges of the header.
C6_WritableIffOutsideReadOnlyRanges ==
    (Normalized /\ AllRaw) =>
        \A key \in OutKeys : key.isWritable <=> ~InReadOnlyRange(IndexOfKey(key.pubkey))

\* C7: in the raw encoding an account referenced at index i is a signer iff
\* i < numRequiredSignatures, a missing header counting as zero signers.
C7_SignerIffBelowNumRequiredSignatures ==
    (Normalized /\ AllRaw) =>
        \A key \in OutKeys : key.isSigner <=> IndexOfKey(key.pubkey) < HdrSigners

\* C7 witness: numRequiredSignatures = 2 over 5 accounts, all five referenced:
\* exactly the accounts at indices 0 and 1 are signers.
C7_Witness ==
    /\ Normalized /\ AllRaw
    /\ AccountKeysOf(normIn) = Keys5
    /\ HeaderOf(normIn) = Header(2, 1, 1)
    /\ \E k \in DOMAIN normOut.instructions :
          LET keys == normOut.instructions[k].keys IN
          /\ Len(keys) = 5
          /\ { IndexOfKey(keys[j].pubkey) : j \in { j \in 1..5 : keys[j].isSigner } } = {0, 1}

\* The addresses that occur in the kept instructions of the result.
AddressesOfInstructions ==
    { normOut.instructions[k].programId : k \in DOMAIN normOut.instructions }
    \cup { key.pubkey : key \in OutKeys }

\* C8: uniqueAccounts is exactly the set of addresses that occur as a program
\* id or as an account address in the kept instructions.
C8_UniqueAccountsExact ==
    Normalized => Range(normOut.accounts) = AddressesOfInstructions

\* C9: the classifier is never applied to an empty canonical instruction
\* list: a result that is not null has at least one instruction.
C9_NoClassificationOfEmptyList ==
    Normalized => Len(normOut.instructions) > 0

\* The tags multi-N.
MultiTags == { "multi-" \o ToString(n) : n \in 2..(MaxInstrs + 1) }

\* C10 as stated: a single instruction is tagged system / token / memo /
\* program by its program id, and every tag is in the vocabulary
\* {system, token, memo, program, multi-N, complex, unrecognized}.
C10_SingleInstructionTagOriginal ==
    Normalized =>
        /\ normOut.kind \in {"system", "token", "memo", "program", "complex",
                             "unrecognized"} \cup MultiTags
        /\ Len(normOut.instructions) = 1 =>
              LET pid == normOut.instructions[1].programId IN
              normOut.kind = IF pid = SYSTEM_PROGRAM_ID THEN "system"
                             ELSE IF pid = TOKEN_PROGRAM_ID THEN "token"
                             ELSE IF pid \in {MEMO_V1, MEMO_V2} THEN "memo"
                             ELSE "program"

\* C10 amended: the SPL token program gives spl-token, and the vocabulary
\* is {system, spl-token, memo, program, multi-N, complex, unrecognized}.
C10_SingleInstructionTag ==
    Normalized =>
        /\ normOut.kind \in {"system", "spl-token", "memo", "program", "complex",
                             "unrecognized"} \cup MultiTags
        /\ Len(normOut.instructions) = 1 =>
              LET pid == normOut.instructions[1].programId IN
              normOut.kind = IF pid = SYSTEM_PROGRAM_ID THEN "system"
                             ELSE IF pid = TOKEN_PROGRAM_ID THEN "spl-token"
                             ELSE IF pid \in {MEMO_V1, MEMO_V2} THEN "memo"
                             ELSE "program"

\* C10 witness: a result with the SPL token program as its only instruction.
C10_Witness ==
    /\ Normalized
    /\ Len(normOut.instructions) = 1
    /\ normOut.instructions[1].programId = TOKEN_PROGRAM_ID
    /\ normOut.kind = "spl-token"

\* C11: a result with more than one instruction is tagged multi-<count>,
\* count being the number of instructions of the result (the dropped and the
\* extracted ones not counted); two instructions give multi-2.
C11_MultiCount ==
    Normalized =>
        /\ Len(normOut.instructions) > 1 =>
              normOut.kind = "multi-" \o ToString(Len(normOut.instructions))
        /\ Len(normOut.instructions) = 2 => normOut.kind = "multi-2"
        /\ normOut.kind \in MultiTags => Len(normOut.instructions) > 1

\* C11 witness: three input instructions, one of them extracted or dropped,
\* give multi-2.
C11_Witness ==
    /\ Normalized
    /\ Len(InstructionsOf(normIn)) = 3
    /\ Len(normOut.instructions) = 2
    /\ normOut.kind = "multi-2"

\* The program id the five-step order gives an input instruction: the
\* structured key, the string-typed id, the system literal under the system
\* marker, the account key at the program index, and otherwise none.
ResolutionInOrder(instr, accountKeys) ==
    IF instr.programId.t = "PublicKey" THEN Resolved(instr.programId.b58)
    ELSE IF instr.programId.t = "string" /\ instr.programId.v # ""
    THEN Resolved(instr.programId.v)
    ELSE IF instr.program = Str("system") THEN Resolved(SYSTEM_PROGRAM_ID)
    ELSE IF instr.programIdIndex.t = "number"
            /\ instr.programIdIndex.n \in 0..(Len(accountKeys) - 1)
    THEN Resolved(KeyString(accountKeys[instr.programIdIndex.n + 1]))
    ELSE Skip

\* C12: every input instruction gets the program id of the first matching
\* strategy of the five-step order, and is skipped when none of the first
\* four matches: the resolved ids are among the accounts of the result, the
\* id of a lone instruction is the first of them, and nothing is recorded
\* when every instruction is skipped.
C12_ResolutionOrder ==
    Normalized =>
        LET instrs == InstructionsOf(normIn)
            keys == AccountKeysOf(normIn)
            res == [k \in DOMAIN instrs |-> ResolutionInOrder(instrs[k], keys)]
        IN /\ \A k \in DOMAIN instrs :
                 res[k].ok => res[k].id \in Range(normOut.accounts)
           /\ (\A k \in DOMAIN instrs : ~res[k].ok) => normOut.accounts = << >>
           /\ (Len(instrs) = 1 /\ res[1].ok) => normOut.accounts[1] = res[1].id

\* The input instructions that resolve to the compute-budget program, and
\* those of them that are the setComputeUnitLimit variant.
BudgetInstrs ==
    { k \in DOMAIN InstructionsOf(normIn) :
        LET r == ResolveProgramId(InstructionsOf(normIn)[k], AccountKeysOf(normIn))
        IN r.ok /\ r.id = COMPUTE_BUDGET_PROGRAM_ID }
LimitInstrs ==
    { k \in BudgetInstrs :
        /\ InstructionsOf(normIn)[k].parsed.t = "object"
        /\ InstructionsOf(normIn)[k].parsed.type = Str("setComputeUnitLimit") }
ResolvedInstrs ==
    { k \in DOMAIN InstructionsOf(normIn) :
        ResolveProgramId(InstructionsOf(normIn)[k], AccountKeysOf(normIn)).ok }

\* The limit an instruction of the setComputeUnitLimit variant carries, the
\* default limit standing for one that carries none.
LimitOf(instr) ==
    IF instr.parsed.info.t = "object" /\ instr.parsed.info.f["units"].t = "number"
       /\ instr.parsed.info.f["units"].n # 0
    THEN instr.parsed.info.f["units"].n
    ELSE 200000

\* C13: no instruction of the result has the compute-budget program id, all
\* input instructions of that program being excluded; the limit of the (last)
\* setComputeUnitLimit instruction is reported as the compute budget, and no
\* compute budget is reported when the input has no such instruction.
C13_ComputeBudgetExtracted ==
    Normalized =>
        /\ \A k \in DOMAIN normOut.instructions :
              normOut.instructions[k].programId # COMPUTE_BUDGET_PROGRAM_ID
        /\ Len(normOut.instructions) = Cardinality(ResolvedInstrs \ BudgetInstrs)
        /\ IF LimitInstrs = {}
           THEN normOut.computeBudget = NoBudget
           ELSE LET last == CHOOSE k \in LimitInstrs : \A m \in LimitInstrs : m <= k
                IN normOut.computeBudget = LimitOf(InstructionsOf(normIn)[last])

\* C13 witness: a setComputeUnitLimit of 1400000 units next to instructions
\* that are kept.
C13_Witness ==
    /\ Normalized
    /\ LimitInstrs # {}
    /\ normOut.computeBudget = 1400000
    /\ Len(normOut.instructions) = 2
    /\ Len(InstructionsOf(normIn)) = 3

\* C14: a call of the normalizer on a response it was called on before, with
\* a call on another response in between or not, returns what the earlier
\* call returned (kind, text, instructions, accounts and compute budget), and
\* no step of a call, on this response or on another, changes the response.
C14_NormalizeIdempotent ==
    [][ /\ normIn' = normIn
        /\ (normCalls >= 1 /\ normCalls' = normCalls + 1) => normOut' = normOut ]_vars

\* C14 witness: a response with an instruction that carries data and an
\* instruction that is left out was normalized, then another response, then
\* the first one again, each call through its loop to its return.
C14_Witness ==
    /\ normCalls = 2
    /\ normFrame.on = "none"
    /\ normFrame.k = Len(InstructionsOf(normIn)) + 1
    /\ normOther.t = "object"
    /\ Normalized
    /\ Len(InstructionsOf(normIn)) = 2
    /\ Len(normOut.instructions) = 1
    /\ normOut.instructions[1].data # ""
    /\ normOut.ts.code[1].data = normOut.instructions[1].data

(***************************************************************************)
(* Claims about run(): the resume point, the windows, failures.            *)
(***************************************************************************)
\* The resume identifier is given and occurs in the list.
ResumeGiven == START_FROM_SIG.t = "string" /\ START_FROM_SIG.v # ""
ResumeInList == ResumeGiven /\ \E k \in DOMAIN allSigs : allSigs[k] = START_FROM_SIG.v

\* The suffix of the list that starts at the first occurrence of x.
SuffixFrom(list, x) ==
    LET first == CHOOSE k \in DOMAIN list :
                     list[k] = x /\ \A m \in 1..(k - 1) : list[m] # x
    IN [j \in 1..(Len(list) - first + 1) |-> list[first + j - 1]]

\* The identifier a request was made for.
SigOfRequest(r) == task[r.pos].sig

\* C15: with a resume identifier that occurs in the list, what is processed
\* is exactly the suffix of the list from the first occurrence of the
\* identifier, in list order; the identifiers before it are never fetched.
C15_ResumeProcessesSuffix ==
    (ResumeInList /\ runPc # "start") =>
        LET suffix == SuffixFrom(allSigs, START_FROM_SIG.v) IN
        /\ sigs = suffix
        /\ \A p \in Positions :
              task[p].pc # "idle" =>
                  /\ p <= Len(suffix)
                  /\ task[p].sig = suffix[p]
                  /\ \A q \in 1..(p - 1) : task[q].pc # "idle"
        /\ \A r \in requests : SigOfRequest(r) = suffix[r.pos]
        /\ \A sig \in Range(allSigs) \ Range(suffix) :
              /\ \A r \in requests : SigOfRequest(r) # sig
              /\ cache[sig] \in {NoEntry, CachedEarlier}
        /\ runPc = "done" => \A p \in 1..Len(suffix) : task[p].pc = "done"

\* C15 witness: the list [a,b,c,d] with resume point c: c and d were
\* processed from the network, and nothing else.
C15_Witness ==
    /\ allSigs = << "a", "b", "c", "d" >>
    /\ START_FROM_SIG = Str("c")
    /\ runPc = "done"
    /\ task[1].sig = "c" /\ task[1].pc = "done"
    /\ task[2].sig = "d" /\ task[2].pc = "done"
    /\ task[3].pc = "idle"
    /\ { SigOfRequest(r) : r \in requests } = {"c", "d"}

\* C16: with a resume identifier that is not in the list, the run ends at
\* once: no endpoint is taken from the pool, no request is issued, no cache
\* entry is written and no identifier is processed.
C16_AbsentResumeFailsBeforeWork ==
    (ResumeGiven /\ ~ResumeInList) =>
        /\ runPc \in {"start", "exit1"}
        /\ sigs = << >>
        /\ rpcIndex = -1
        /\ rpcCalls = << >>
        /\ uses = {}
        /\ requests = {}
        /\ \A r \in RpcNames : rpcStats[r].requests = 0
        /\ \A p \in Positions : task[p] = IdleTask
        /\ \A sig \in SigPool : cache[sig] \in {NoEntry, CachedEarlier}

\* C16 witness: the run has ended with the start signature not found.
C16_Witness ==
    /\ runPc = "exit1"
    /\ ResumeGiven
    /\ ~ResumeInList
    /\ Len(allSigs) > 0

\* The window a position of the processed list belongs to.
WindowOf(p) == (p - 1) \div CONCURRENCY

\* The identifiers being processed.
InFlight == { p \in Positions : task[p].pc \notin {"idle", "done"} }

\* C17: at most CONCURRENCY identifiers are being processed at any time, and
\* no identifier of a window has started before every identifier of the
\* windows before it has finished.
C17_WindowsSequential ==
    /\ Cardinality(InFlight) <= CONCURRENCY
    /\ \A q \in Positions :
          task[q].pc # "idle" =>
              \A p \in 1..(CONCURRENCY * WindowOf(q)) : task[p].pc = "done"
    /\ \A r \in requests :
          \A p \in 1..(CONCURRENCY * WindowOf(r.pos)) : task[p].pc = "done"

\* C17 witness: the second window has started after a first window in which
\* one identifier failed, and others gave no instructions.
C17_Witness ==
    \E p \in Positions : \E q \in Positions : \E n \in Positions :
        /\ WindowOf(p) = 0 /\ WindowOf(n) = 0 /\ WindowOf(q) = 1
        /\ task[p].outcome = "error"
        /\ task[n].outcome = "no-decompile"
        /\ task[q].pc \notin {"idle", "done"}

\* C18: a failure of one identifier stays with it, the other identifiers of
\* its window and the later windows are processed, and the run reaches its
\* final summary (SpecLive).
C18_FailuresIsolatedRunCompletes ==
    (runPc = "start" /\ (~ResumeGiven \/ ResumeInList))
        ~> (runPc = "done" /\ \A p \in 1..Len(sigs) : task[p].pc = "done")

\* C18 witness: the run has reached its end; in its first window one
\* identifier failed with FetchExhausted after two attempts, one with the
\* error of reading its cache file and one with an error thrown by the
\* normalizer, and the identifier of the next window was processed.
C18_Witness ==
    /\ runPc = "done"
    /\ MAX_RETRIES = 2
    /\ \E p \in Positions : \E q \in Positions : \E r \in Positions : \E n \in Positions :
          /\ WindowOf(p) = 0 /\ WindowOf(q) = 0 /\ WindowOf(r) = 0 /\ WindowOf(n) = 1
          /\ task[p].result = Threw("FetchExhausted") /\ task[p].attempt = 2
          /\ task[q].result = Threw(SyntaxError) /\ cache[task[q].sig] = Corrupt
          /\ task[r].result.t = "value"
          /\ decompileToTS(task[r].sig, task[r].result.v) = Threw(TypeError)
          /\ task[p].outcome = "error" /\ task[q].outcome = "error"
          /\ task[r].outcome = "error"
          /\ task[n].pc = "done" /\ task[n].outcome \notin {"error", "none"}

\* C18 witness of the rest of a window: the run has reached its end; one
\* identifier failed with FetchExhausted, another of its window and one of
\* the next window did not fail.
C18_SameWindowWitness ==
    /\ runPc = "done"
    /\ \E p \in Positions : \E q \in Positions : \E n \in Positions :
          /\ task[p].result = Threw("FetchExhausted")
          /\ task[p].outcome = "error"
          /\ WindowOf(q) = WindowOf(p) /\ task[q].outcome \notin {"error", "none"}
          /\ WindowOf(n) > WindowOf(p) /\ task[n].outcome \notin {"error", "none"}

\* C18 witness of a read error next to fetches: the run has reached its
\* end; the identifier with the corrupt cache file failed, an identifier of
\* its window and one of the next window were fetched and written.
C18_ReadErrorWitness ==
    /\ runPc = "done"
    /\ \E q \in Positions : \E p \in Positions : \E n \in Positions :
          /\ task[q].result = Threw(SyntaxError) /\ task[q].outcome = "error"
          /\ WindowOf(p) = WindowOf(q) /\ task[p].attempt >= 1
          /\ task[p].outcome \notin {"error", "none"}
          /\ WindowOf(n) > WindowOf(q) /\ task[n].attempt >= 1
          /\ task[n].outcome \notin {"error", "none"}

\* C18 witness of a normalizer error: the run has reached its end although
\* decompileToTS threw on a document of the cache.
C18_NormalizerErrorWitness ==
    /\ runPc = "done"
    /\ \E p \in Positions : \E q \in Positions :
          /\ task[p].result.t = "value"
          /\ decompileToTS(task[p].sig, task[p].result.v) = Threw(TypeError)
          /\ task[p].outcome = "error"
          /\ WindowOf(q) > WindowOf(p) /\ task[q].outcome \notin {"error", "none"}

\* The class of the failure a sleeping call has just caught.
LastOutcome(tk) == tk.outcomes[Len(tk.outcomes)]

\* C19: at every attempt number of the retry loop the sleep after a
\* rate-limited failure, without jitter, is longer than the sleep after any
\* other thrown error with the largest jitter; the sleeps that are started
\* are BASE * 3^n at least in the first case and at most BASE * 2^n plus
\* the jitter bound in the second.
C19_RateLimitedBackoffIsLonger ==
    [][ /\ \A n \in 1..MAX_RETRIES :
              1000 * 3^n > 1000 * 2^n + ERROR_JITTER_MS
        /\ \A p \in Positions :
              (task[p].pc # "backoff" /\ task'[p].pc = "backoff") =>
                  LET n == task'[p].attempt
                      slept == task'[p].at - now'
                  IN /\ n \in 1..MAX_RETRIES
                     /\ LastOutcome(task'[p]) = "429" => slept >= 1000 * 3^n
                     /\ LastOutcome(task'[p]) = "error" =>
                            slept <= 1000 * 2^n + ERROR_JITTER_MS ]_vars

\* C19 witness: a call sleeps 9000 ms or more after a rate-limited failure of
\* its second attempt, its first attempt having failed otherwise.
C19_Witness ==
    \E p \in Positions :
        /\ task[p].pc = "backoff"
        /\ task[p].attempt = 2
        /\ task[p].outcomes = << "error", "429" >>
        /\ task[p].at - now >= 9000

\* C20: recording a success or a failure leaves the rotation as it is, and
\* the endpoint of the k-th call of nextRpc is the ((k - 1) mod M)-th of the
\* list whatever the counters hold.
C20_StatsNeverInfluenceRouting ==
    [][ /\ (\E r \in RpcNames : \/ rpcStats'[r].success # rpcStats[r].success
                                 \/ rpcStats'[r].failures # rpcStats[r].failures)
              => (rpcIndex' = rpcIndex /\ rpcCalls' = rpcCalls /\ RPC_LIST' = RPC_LIST)
        /\ rpcCalls' # rpcCalls =>
              /\ rpcCalls' = Append(rpcCalls, RPC_LIST[(Len(rpcCalls) % Len(RPC_LIST)) + 1])
              /\ rpcIndex' = Len(rpcCalls) % Len(RPC_LIST) ]_vars

\* C20 witness: with two endpoints, an endpoint that has only failures on
\* record was handed out again.
C20_Witness ==
    /\ Len(RPC_LIST) = 2
    /\ \E r \in RpcNames :
          /\ rpcStats[r].failures >= 1
          /\ rpcStats[r].success = 0
          /\ \E u1 \in uses : \E u2 \in uses :
                /\ u1.rpc = r /\ u2.rpc = r
                /\ u1.pos = u2.pos /\ u1.attempt = 1 /\ u2.attempt = 2
                /\ task[u1.pos].outcomes[1] \in {"429", "error"}

(***************************************************************************)
(* Claims about the cache contract, the attempts of a fetch and the        *)
(* windows of the run.                                                     *)
(***************************************************************************)
\* fetchParsedTx has returned or thrown: processSig, when it is the caller,
\* is about to go on or has ended as well.
Ended(tk) == tk.pc \in {"returned", "done"}

\* A step in which the call at position p returns a response of the network.
ReturnsFromNetwork(p) ==
    /\ task[p].pc \in {"parsedReq", "rawReq"}
    /\ Ended(task'[p])

\* C21: the cache is append-only and the last write wins: an identifier
\* that has an entry keeps one in every step, and when a call writes an
\* identifier that already has an entry, reading the identifier afterwards
\* gives the document of that later write.
C21_CacheAppendOnlyLastWriteWins ==
    [][ \A sig \in SigPool :
          /\ isCached(cache, sig) => isCached(cache', sig)
          /\ \A p \in Positions :
                ( /\ ReturnsFromNetwork(p)
                  /\ task[p].sig = sig
                  /\ isCached(cache, sig) )
                => readCache(cache', sig) = Value(JsonRoundTrip(task'[p].result.v)) ]_vars

\* C21 witness: two calls on the same identifier wrote two different
\* documents one after the other, and the cache holds one of them and not
\* the other.
C21_Witness ==
    \E p \in Positions : \E q \in Positions :
        /\ p # q
        /\ task[p].pc = "done" /\ task[q].pc = "done"
        /\ task[p].sig = task[q].sig
        /\ task[p].attempt >= 1 /\ task[q].attempt >= 1
        /\ task[p].result.t = "value" /\ task[q].result.t = "value"
        /\ readCache(cache, task[p].sig) = Value(JsonRoundTrip(task[q].result.v))
        /\ readCache(cache, task[p].sig) # Value(JsonRoundTrip(task[p].result.v))

\* C22: when a call returns a response of the network, the cache holds at
\* that moment the (serialized) response under the call's identifier, the
\* success counter of the endpoint of the attempt went up by one and no
\* other counter of success or failure moved; a later call on an identifier
\* an earlier call returned from the network makes no attempt and returns
\* the cached document (SpecFetch).
C22_NetworkResultIsCachedAndCounted ==
    [][ \A p \in Positions :
          /\ ReturnsFromNetwork(p) =>
                /\ task'[p].result.t = "value"
                /\ isCached(cache', task[p].sig)
                /\ readCache(cache', task[p].sig) = Value(JsonRoundTrip(task'[p].result.v))
                /\ \A r \in RpcNames :
                      /\ rpcStats'[r].success =
                            rpcStats[r].success + (IF r = task[p].rpc THEN 1 ELSE 0)
                      /\ rpcStats'[r].failures = rpcStats[r].failures
                /\ \A r \in requests :
                      (r.pos = p /\ r.attempt = task[p].attempt) => r.rpc = task[p].rpc
          /\ ( /\ task[p].pc = "idle"
               /\ task'[p].pc # "idle"
               /\ \E q \in Positions :
                     /\ task[q].pc = "done"
                     /\ task[q].sig = task'[p].sig
                     /\ task[q].attempt >= 1
                     /\ task[q].result.t = "value" )
             => ( /\ task'[p].pc = "done"
                  /\ task'[p].attempt = 0
                  /\ task'[p].result.t = "value"
                  /\ task'[p].result = readCache(cache, task'[p].sig)
                  /\ requests' = requests ) ]_vars

\* C22 witness: a first call fetched an identifier from the network, with
\* one success counted for its endpoint, and a second call on the same
\* identifier returned the serialized form of that response without an
\* attempt.
C22_Witness ==
    \E p \in Positions : \E q \in Positions :
        /\ q < p
        /\ task[q].pc = "done" /\ task[p].pc = "done"
        /\ task[q].sig = task[p].sig
        /\ task[q].attempt >= 1 /\ task[q].result.t = "value"
        /\ rpcStats[task[q].rpc].success = 1
        /\ task[p].attempt = 0
        /\ task[p].result = Value(JsonRoundTrip(task[q].result.v))

\* The requests of attempt n of the call at position p, in a set of requests.
RequestsOfAttempt(rs, p, n, kind) ==
    { r \in rs : r.pos = p /\ r.attempt = n /\ r.kind = kind }

\* C23: in every attempt the pre-parsed request is issued first and once;
\* the raw request is issued only in the step in which the pre-parsed
\* request of the same attempt settles with an empty answer (no timeout, no
\* error, no counter moved, nothing cached), once, and to the same
\* endpoint; a pre-parsed request that settles with a response ends the
\* call without a raw request.
C23_ParsedFirstRawOnlyAfterEmpty ==
    [][ \A p \in Positions :
          /\ \A r \in requests' \ requests :
                (r.pos = p /\ r.kind = "parsed") =>
                   /\ task[p].pc = "granted"
                   /\ task'[p].pc = "parsedReq"
                   /\ r.attempt = task'[p].attempt
                   /\ r.rpc = task'[p].rpc
                   /\ RequestsOfAttempt(requests, p, r.attempt, "parsed") = {}
                   /\ RequestsOfAttempt(requests, p, r.attempt, "raw") = {}
          /\ \A r \in requests' \ requests :
                (r.pos = p /\ r.kind = "raw") =>
                   /\ task[p].pc = "parsedReq"
                   /\ ~task[p].timedOut
                   /\ task'[p].pc = "rawReq"
                   /\ r.attempt = task[p].attempt
                   /\ task'[p].attempt = task[p].attempt
                   /\ task'[p].outcomes = task[p].outcomes
                   /\ rpcStats' = rpcStats
                   /\ cache' = cache
                   /\ RequestsOfAttempt(requests, p, r.attempt, "raw") = {}
                   /\ \E q \in RequestsOfAttempt(requests, p, r.attempt, "parsed") :
                         q.rpc = r.rpc /\ q.time <= r.time
          /\ (task[p].pc = "parsedReq" /\ Ended(task'[p])) =>
                /\ task'[p].result.t = "value"
                /\ requests' = requests
                /\ RequestsOfAttempt(requests, p, task[p].attempt, "raw") = {} ]_vars

\* C23 witness: with two endpoints, the second attempt of a call got an
\* empty pre-parsed answer from the second endpoint, sent its raw request
\* there and returned the raw response.
C23_Witness ==
    \E p \in Positions :
        /\ Len(RPC_LIST) = 2
        /\ task[p].pc = "done"
        /\ task[p].attempt = 2
        /\ task[p].result = Value(NetRaw)
        /\ \E q \in RequestsOfAttempt(requests, p, 2, "parsed") :
           \E r \in RequestsOfAttempt(requests, p, 2, "raw") :
              q.rpc = r.rpc /\ q.rpc # RPC_LIST[1] /\ q.time < r.time

\* A step in which the request the call at position p waits for is given up
\* by the timeout of the race.
TimesOut(p) ==
    /\ task[p].pc \in {"parsedReq", "rawReq"}
    /\ task[p].timedOut
    /\ task'[p] # task[p]

\* C24: a request that runs into REQUEST_TIMEOUT_MS fails its own attempt
\* only: the timeout fires REQUEST_TIMEOUT_MS after the request, one failure
\* is counted for the endpoint of the attempt, no success, nothing is
\* cached, the call sleeps the backoff of an error that is not a rate limit
\* (BASE * 2^attempt plus ERROR_JITTER_MS at most), every other call and
\* the run are left as they were, and a call that wakes from a backoff with
\* attempts left starts the next attempt.
C24_TimeoutFailsOnlyItsAttempt ==
    [][ \A p \in Positions :
          /\ TimesOut(p) =>
                /\ \E r \in RequestsOfAttempt(requests, p, task[p].attempt,
                                 IF task[p].pc = "parsedReq" THEN "parsed" ELSE "raw") :
                      now' = r.time + REQUEST_TIMEOUT_MS
                /\ task'[p].pc = "backoff"
                /\ task'[p].attempt = task[p].attempt
                /\ task'[p].outcomes = Append(task[p].outcomes, "error")
                /\ task'[p].at - now' >= BASE_BACKOFF_MS * 2^(task[p].attempt)
                /\ task'[p].at - now' <= BASE_BACKOFF_MS * 2^(task[p].attempt) + ERROR_JITTER_MS
                /\ rpcStats' = [rpcStats EXCEPT ![task[p].rpc].failures = @ + 1]
                /\ cache' = cache
                /\ requests' = requests
                /\ runPc' = runPc
                /\ \A q \in Positions \ {p} : task'[q] = task[q]
          /\ ( /\ task[p].pc = "backoff"
               /\ task'[p] # task[p]
               /\ task[p].attempt < MAX_RETRIES )
             => ( /\ task'[p].attempt = task[p].attempt + 1
                  /\ task'[p].pc \in {"pacing", "granted"} ) ]_vars

\* C24 witness: the first attempt of a call was given up by the timeout,
\* its second attempt, a timeout and a backoff later, returned a response,
\* and another call of the run returned its response as well.
C24_Witness ==
    \E p \in Positions : \E q \in Positions \ {p} :
        /\ task[p].pc = "done"
        /\ task[p].outcomes = << "error", "value" >>
        /\ \E u1 \in uses : \E u2 \in uses :
              /\ u1.pos = p /\ u2.pos = p
              /\ u1.attempt = 1 /\ u2.attempt = 2
              /\ u2.time >= u1.time + REQUEST_TIMEOUT_MS + BASE_BACKOFF_MS * 2
        /\ task[q].pc = "done"
        /\ task[q].attempt >= 1
        /\ task[q].result.t = "value"

\* A step in which the raw request of the call at position p settles empty
\* after the pre-parsed request of the attempt did.
BothEmpty(p) ==
    /\ task[p].pc = "rawReq"
    /\ task'[p].pc = "backoff"
    /\ task'[p].outcomes = Append(task[p].outcomes, "empty")

\* C25: an attempt whose two requests both return empty is no error: no
\* counter of any endpoint changes, nothing is cached, the call sleeps
\* BASE * 2^attempt plus EMPTY_JITTER_MS at most, and after the sleep it
\* starts the next attempt when one is left.
C25_EmptyAttemptBacksOffUncounted ==
    [][ \A p \in Positions :
          /\ BothEmpty(p) =>
                /\ ~task[p].timedOut
                /\ rpcStats' = rpcStats
                /\ cache' = cache
                /\ requests' = requests
                /\ task'[p].attempt = task[p].attempt
                /\ task'[p].at - now' >= BASE_BACKOFF_MS * 2^(task[p].attempt)
                /\ task'[p].at - now' <= BASE_BACKOFF_MS * 2^(task[p].attempt) + EMPTY_JITTER_MS
          /\ ( /\ task[p].pc = "backoff"
               /\ LastOutcome(task[p]) = "empty"
               /\ task'[p] # task[p] )
             => IF task[p].attempt < MAX_RETRIES
                THEN /\ task'[p].attempt = task[p].attempt + 1
                     /\ task'[p].pc \in {"pacing", "granted"}
                     /\ cache' = cache
                ELSE /\ task'[p].result = Threw("FetchExhausted")
                     /\ rpcStats' = rpcStats
                     /\ cache' = cache ]_vars

\* C25 witness: the first attempt of a call got two empty answers, the
\* second one returned a response; the endpoint of the first attempt was
\* asked once and has neither a success nor a failure on record.
C25_Witness ==
    \E p \in Positions :
        /\ Len(RPC_LIST) = 2
        /\ task[p].pc = "done"
        /\ task[p].outcomes = << "empty", "value" >>
        /\ \E u \in uses :
              /\ u.pos = p /\ u.attempt = 1
              /\ rpcStats[u.rpc].requests = 1
              /\ rpcStats[u.rpc].success = 0
              /\ rpcStats[u.rpc].failures = 0
        /\ \E u1 \in uses : \E u2 \in uses :
              /\ u1.pos = p /\ u2.pos = p /\ u1.attempt = 1 /\ u2.attempt = 2
              /\ u2.time - u1.time >= BASE_BACKOFF_MS * 2
              /\ u2.time - u1.time < BASE_BACKOFF_MS * 3

\* The program ids of the instructions of a list that the five-step order
\* resolves, the compute-budget program aside, in the order of the list.
KeptInOrder(instrs, accountKeys) ==
    LET upTo[k \in 0..Len(instrs)] ==
            IF k = 0 THEN << >>
            ELSE LET r == ResolutionInOrder(instrs[k], accountKeys) IN
                 IF r.ok /\ r.id # COMPUTE_BUDGET_PROGRAM_ID
                 THEN Append(upTo[k - 1], r.id)
                 ELSE upTo[k - 1]
    IN upTo[Len(instrs)]

\* C26: normalizing a transaction that has instructions, none of them with
\* a mint that is not a string, gives a result whatever cannot be resolved,
\* and the instructions of the result are, in the order of the input, the
\* input instructions that one of the four strategies resolves (the
\* compute-budget ones aside): an instruction that none of them resolves is
\* not among them.
C26_UnresolvedDroppedOrderKept ==
    LET instrs == InstructionsOf(normIn) IN
    (/\ normPc \in {"done", "threw"}
     /\ Len(instrs) > 0
     /\ \A k \in DOMAIN instrs : ~DescriptionThrows(instrs[k])) =>
        /\ normOut.t = "object"
        /\ [k \in DOMAIN normOut.instructions |-> normOut.instructions[k].programId]
              = KeptInOrder(instrs, AccountKeysOf(normIn))

\* C27: the windows cover the list to process without gap or overlap: a
\* position is handed to processSig only while it has not been handed
\* before, as the next position of the list, in the window its index falls
\* in; a position that was handed stays so with its identifier; and when
\* the run ends every position of the list has been processed and nothing
\* beyond it, which for an empty list is nothing at all.
C27_WindowsPartitionTheList ==
    [][ /\ launched' = launched + 1 =>
              LET p == i + launched + 1 IN
              /\ p \in 1..Len(sigs)
              /\ i = CONCURRENCY * WindowOf(p)
              /\ task[p].pc = "idle"
              /\ task'[p].pc # "idle"
              /\ task'[p].sig = sigs[p]
              /\ \A q \in Positions \ {p} : task'[q] = task[q]
        /\ \A p \in Positions :
              /\ (task[p].pc = "idle" /\ task'[p].pc # "idle")
                    => (launched' = launched + 1 /\ p = i + launched + 1)
              /\ task[p].pc # "idle"
                    => (task'[p].pc # "idle" /\ task'[p].sig = task[p].sig)
        /\ (runPc # "done" /\ runPc' = "done") =>
              /\ \A p \in Positions :
                    task'[p].pc = IF p <= Len(sigs') THEN "done" ELSE "idle"
              /\ Len(sigs') = 0 => (requests' = {} /\ rpcCalls' = << >>) ]_vars

\* C27 witness: a run over four identifiers has ended after a full window
\* and a shorter one, each identifier processed at its own position.
C27_Witness ==
    /\ runPc = "done"
    /\ Len(sigs) = CONCURRENCY + 1
    /\ \A p \in 1..Len(sigs) : task[p].pc = "done" /\ task[p].sig = sigs[p]
    /\ \E r \in requests : r.pos = CONCURRENCY + 1

\* C27 witness of the empty list: the run has ended with nothing processed.
C27_EmptyListWitness ==
    /\ runPc = "done"
    /\ sigs = << >>
    /\ \A p \in Positions : task[p].pc = "idle"

\* C28: in every step of the run and for every endpoint: a call that
\* starts an attempt adds one to requests of the endpoint the attempt got
\* and to nothing else, and requests changes in no other way; a call whose
\* attempt ends adds one to success (a response) or one to failures (a
\* thrown error) of the endpoint of that attempt, or nothing (empty), and
\* these counters change in no other way; an attempt ends once; and
\* success + failures <= requests after the step.
C28_CountersFollowAttempts ==
    [][ /\ \A r \in RpcNames :
              /\ rpcStats'[r].success + rpcStats'[r].failures <= rpcStats'[r].requests
              /\ rpcStats'[r].requests = rpcStats[r].requests +
                    Cardinality({ p \in Positions :
                        task'[p].attempt # task[p].attempt /\ task'[p].rpc = r })
              /\ rpcStats'[r].success = rpcStats[r].success +
                    Cardinality({ p \in Positions :
                        /\ task'[p].outcomes # task[p].outcomes
                        /\ LastOutcome(task'[p]) = "value"
                        /\ task[p].rpc = r })
              /\ rpcStats'[r].failures = rpcStats[r].failures +
                    Cardinality({ p \in Positions :
                        /\ task'[p].outcomes # task[p].outcomes
                        /\ LastOutcome(task'[p]) \in {"429", "error"}
                        /\ task[p].rpc = r })
        /\ \A p \in Positions :
              /\ task'[p].attempt \in {task[p].attempt, task[p].attempt + 1}
              /\ task'[p].attempt # task[p].attempt =>
                    /\ Len(task[p].outcomes) = task[p].attempt
                    /\ task'[p].outcomes = task[p].outcomes
              /\ task'[p].outcomes # task[p].outcomes =>
                    /\ Len(task'[p].outcomes) = task[p].attempt
                    /\ task'[p].attempt = task[p].attempt
                    /\ \E way \in {"value", "429", "error", "empty"} :
                          task'[p].outcomes = Append(task[p].outcomes, way) ]_vars

\* C28 witness: the three calls of one window have all made attempts, and
\* their endpoint has a success, a failure and an attempt that is counted
\* in neither.
C28_Witness ==
    /\ \E r \in RpcNames :
          /\ rpcStats[r].success >= 1
          /\ rpcStats[r].failures >= 1
          /\ rpcStats[r].requests > rpcStats[r].success + rpcStats[r].failures
    /\ \A p \in 1..CONCURRENCY : task[p].attempt >= 1

\* C29: the cache is written only in the step in which a call returns a
\* response of the network, and only under the identifier of that call; an
\* attempt that ends in an error or empty, and the step in which a call
\* fails with FetchExhausted after MAX_RETRIES such attempts, leave the
\* whole cache as it was.
C29_FailedFetchLeavesCache ==
    [][ /\ cache' # cache =>
              \E p \in Positions :
                  /\ ReturnsFromNetwork(p)
                  /\ \A sig \in SigPool \ {task[p].sig} : cache'[sig] = cache[sig]
        /\ \A p \in Positions :
              /\ ( /\ task'[p].outcomes # task[p].outcomes
                   /\ LastOutcome(task'[p]) # "value" ) => cache' = cache
              /\ ( /\ task[p].result.t # "threw"
                   /\ task'[p].result.t = "threw" )
                 => ( /\ cache' = cache
                      /\ task'[p].result = Threw("FetchExhausted")
                      /\ Len(task[p].outcomes) = MAX_RETRIES
                      /\ \A n \in 1..MAX_RETRIES : task[p].outcomes[n] # "value" ) ]_vars

\* C29 witness: a call failed with FetchExhausted after an error and an
\* empty attempt, and its identifier has no entry in the cache.
C29_Witness ==
    \E p \in Positions :
        /\ task[p].pc = "done"
        /\ task[p].result = Threw("FetchExhausted")
        /\ "empty" \in Range(task[p].outcomes)
        /\ \E n \in 1..MAX_RETRIES : task[p].outcomes[n] \in {"429", "error"}
        /\ ~isCached(cache, task[p].sig)

\* C29 witness of the other writer: a call failed with FetchExhausted while
\* another call on the same identifier fetched and cached it.
C29_OtherWriterWitness ==
    \E p \in Positions : \E q \in Positions \ {p} :
        /\ task[p].pc = "done"
        /\ task[p].result = Threw("FetchExhausted")
        /\ task[q].sig = task[p].sig
        /\ task[q].result.t = "value"
        /\ readCache(cache, task[p].sig) = Value(JsonRoundTrip(task[q].result.v))

\* C30: a call of fetchParsedTx on an identifier that is in the cache
\* returns in its first step and leaves the pool as it was: the rotation
\* index, the three counters of every endpoint and the time every endpoint
\* was last used (SpecFetch).
C30_CachedFetchLeavesPool ==
    [][ \A p \in Positions :
          ( /\ task[p].pc = "idle"
            /\ task'[p].pc # "idle"
            /\ cache[task'[p].sig] # NoEntry )
          => ( /\ task'[p].pc = "done"
               /\ rpcIndex' = rpcIndex
               /\ \A r \in RpcNames :
                     /\ rpcStats'[r].requests = rpcStats[r].requests
                     /\ rpcStats'[r].success = rpcStats[r].success
                     /\ rpcStats'[r].failures = rpcStats[r].failures
                     /\ rpcLastUsed'[r] = rpcLastUsed[r] ) ]_vars

\* C30 witness: after a first call that used the pool (a failure and a
\* success on record), a second call was served from the cache, and the
\* pool holds the attempts of the first call only.
C30_Witness ==
    \E p \in Positions : \E q \in Positions :
        /\ q < p
        /\ task[q].pc = "done"
        /\ task[q].outcomes = << "error", "value" >>
        /\ task[p].pc = "done"
        /\ task[p].attempt = 0
        /\ task[p].result.t = "value"
        /\ Len(rpcCalls) = task[q].attempt
        /\ \E r \in RpcNames : rpcLastUsed[r] # NeverUsed /\ rpcStats[r].requests >= 1

(***************************************************************************)
(* Claims about the rotation under concurrent callers and the sleep after  *)
(* the last attempt.                                                       *)
(***************************************************************************)
\* C31: the rotation is strict in the order in which the calls of nextRpc
\* begin: a step begins at most one call, the k-th call to begin moves the
\* index to (k - 1) mod M and is assigned that endpoint of the list at once,
\* whether it then waits for the pacing or not and whatever other calls are
\* waiting; the index moves in no other step, and a call that wakes from
\* its pacing wait uses the endpoint it was assigned when it began.
C31_RotationStrictInCallOrder ==
    [][ LET M == Len(RPC_LIST)
            k == Len(rpcCalls) + 1
        IN /\ rpcCalls' # rpcCalls =>
                 /\ rpcCalls' = Append(rpcCalls, RPC_LIST[((k - 1) % M) + 1])
                 /\ rpcIndex' = (k - 1) % M
                 /\ rpcIndex' # rpcIndex \/ M = 1
                 /\ \E p \in Positions :
                       /\ task'[p].attempt = task[p].attempt + 1
                       /\ task'[p].pc \in {"pacing", "granted"}
                       /\ task'[p].rpc = RPC_LIST[((k - 1) % M) + 1]
                       /\ \A q \in Positions \ {p} : task'[q] = task[q]
           /\ rpcCalls' = rpcCalls => rpcIndex' = rpcIndex
           /\ \A p \in Positions :
                 (task[p].pc = "pacing" /\ task'[p].pc # "pacing") =>
                    /\ task'[p].pc = "granted"
                    /\ task'[p].rpc = task[p].rpc
                    /\ \E u \in uses' \ uses :
                          u.pos = p /\ u.rpc = task[p].rpc /\ u.time = now' ]_vars

\* C31 witness: three concurrent callers over two endpoints: the third one
\* is suspended in its pacing wait for the first endpoint, the index has
\* already moved on to it, and the second one, given the second endpoint,
\* has not sent its request yet.
C31_Witness ==
    /\ Len(RPC_LIST) = 2
    /\ rpcCalls = << RPC_LIST[1], RPC_LIST[2], RPC_LIST[1] >>
    /\ rpcIndex = 0
    /\ \E p \in Positions :
          /\ task[p].pc = "pacing"
          /\ task[p].rpc = RPC_LIST[1]
          /\ \E q \in Positions \ {p} :
                /\ task[q].pc = "granted" /\ task[q].rpc = RPC_LIST[2]
                /\ RequestsOf(q, "parsed") = {}

\* C31 witness of a call that begins during a wait: with one endpoint, the
\* third caller began while the second was suspended in its pacing wait.
C31_WaitInProgressWitness ==
    /\ Len(rpcCalls) = CONCURRENCY
    /\ Cardinality({ p \in Positions : task[p].pc = "pacing" }) >= 2

\* The time at which attempt n of the call at position p was given its
\* endpoint.
GrantedAt(p, n) == (CHOOSE u \in uses : u.pos = p /\ u.attempt = n).time

\* C32: an attempt that ends without a response, the last one included, is
\* followed by its backoff sleep of BASE * 2^attempt or more, during which
\* nothing happens for the call; the call goes on only when the sleep is
\* over, with the next attempt when one is left and with FetchExhausted
\* otherwise, and FetchExhausted is thrown from nowhere else.
C32_BackoffAfterEveryFailedAttempt ==
    [][ \A p \in Positions :
          /\ ( /\ task[p].pc \in {"parsedReq", "rawReq"}
               /\ task'[p] # task[p]
               /\ task'[p].pc \notin {"returned", "done", "rawReq"} )
             => ( /\ task'[p].pc = "backoff"
                  /\ task'[p].attempt = task[p].attempt
                  /\ Len(task'[p].outcomes) = task[p].attempt
                  /\ LastOutcome(task'[p]) \in {"429", "error", "empty"}
                  /\ task'[p].at >= now' + BASE_BACKOFF_MS * 2^(task[p].attempt) )
          /\ (task[p].pc \in {"parsedReq", "rawReq"} /\ Ended(task'[p]))
                => task'[p].result.t = "value"
          /\ (task[p].pc = "backoff" /\ task'[p] # task[p]) =>
                /\ now' = task[p].at
                /\ now' >= GrantedAt(p, task[p].attempt)
                              + BASE_BACKOFF_MS * 2^(task[p].attempt)
                /\ IF task[p].attempt < MAX_RETRIES
                   THEN /\ task'[p].attempt = task[p].attempt + 1
                        /\ task'[p].pc \in {"pacing", "granted"}
                   ELSE /\ Ended(task'[p])
                        /\ task'[p].result = Threw("FetchExhausted")
          /\ (task[p].result.t # "threw" /\ task'[p].result.t = "threw") =>
                /\ task[p].pc = "backoff"
                /\ task[p].attempt = MAX_RETRIES ]_vars

\* C32 witness: a call has just failed with FetchExhausted, the backoff of
\* its last attempt (BASE * 2^MAX_RETRIES) after that attempt's request was
\* answered.
C32_Witness ==
    \E p \in Positions :
        /\ MAX_RETRIES = 2
        /\ task[p].pc = "done"
        /\ task[p].result = Threw("FetchExhausted")
        /\ task[p].attempt = MAX_RETRIES
        /\ now = task[p].at
        /\ now >= GrantedAt(p, MAX_RETRIES) + Latency + BASE_BACKOFF_MS * 2^MAX_RETRIES

====
